---- MODULE Spec2Model ----
(***************************************************************************)
(* Run Command handler for Linux: the command lifecycle (Pre, Invoke,      *)
(* ReportStatus, Cleanup), the sequence-number guard, the supervision of   *)
(* the managed script through the pid marker, and the periodic reporting   *)
(* goroutine of enable with its ticker and its done channel.                *)
(*                                                                         *)
(* Every handler process is one invocation of the handler binary by the    *)
(* launcher shim; the shim starts "enable" detached in the background, so   *)
(* several handler processes can be alive at once.  The processes share    *)
(* the two marker files (mrseq, pid file).  Each enable process has a main *)
(* path and one goroutine.                                                 *)
(***************************************************************************)
EXTENDS Integers, Sequences, FiniteSets, TLC

\* ------------------------------------------------------------- bounds
\* Number of handler invocations considered.
MaxProcs == 2
\* Configuration versions (sequence numbers) are 0..MaxSeq.
MaxSeq == 1

Procs == 1..MaxProcs
Versions == 0..MaxSeq

\* ------------------------------------------------------------- state
VARIABLES
    pc,         \* pc[p]: position of the main path of handler process p
    cmd,        \* cmd[p]: the command p was invoked with
    seq,        \* seq[p]: metadata.SeqNum of p
    mrseq,      \* the sequence marker file: <<>> (absent) or <<v>>
    pidFile,    \* the pid marker file: <<>> (absent) or <<p>> (pid + start time of p)
    gpc,        \* gpc[p]: position of the periodic goroutine of p
    tickerOn,   \* tickerOn[p]: the ticker of p is running (not stopped)
    tick,       \* tick[p]: the stopped ticker of p left a tick buffered in ticker.C
    runErr,     \* runErr[p]: the error the Invoke function returns ("" is nil)
    exitCode,   \* exitCode[p]: the exit code the Invoke function returns
    trace,      \* trace[p]: history, the steps p has performed, in order
    lastStatus, \* lastStatus[p]: the status kind of the latest status report of p
                \* ("none": no report yet)
    \* download.WithRetries (one call)
    downloaders,    \* the list of downloaders the call was given
    dIdx,           \* index of the downloader of the outer loop ("d")
    n,              \* the retry counter of the inner loop
    rpc,            \* position of the call: "attempt", "sleep", "returned"
    timesCalled,    \* timesCalled[i]: calls of GetRequest on downloader i
    sleeps,         \* the durations sf was called with, in order (seconds)
    downloadErrors, \* the accumulated error, newest attempt first (<<>> is nil)
    out,            \* what the call returned: "none" (not yet), "body", "nil"
    openBodies,     \* response bodies of failed attempts that are not closed
    closedBodies,   \* response bodies of failed attempts that were closed
    source,         \* the script source of the settings: [script, uri], TRUE where
                    \* cfg.Script() / cfg.ScriptURI() is not empty
    \* the output of the managed script and its remote sinks
    sink,       \* sink[s]: the handles createOrReplaceAppendBlob returned for stream
                \* s: [ref, client], TRUE for a handle that is not nil
    fileLen,    \* fileLen[p][s]: bytes in the capture file of stream s of p's script
    cursor,     \* cursor[p][s]: outputFilePosition / errorFilePosition of p
    blob,       \* blob[p][s]: the offsets of the bytes the append blob accepted, in order
    tail,       \* tail[p][s]: bytes of the file covered by the latest getOutput
    appendErr,  \* appendErr[p][s]: the error the latest appendToBlob of stream s returned
                \* ("" is nil); enable's variable err holds that of stderr after a pass
    blobCfg,    \* blobCfg[s]: the settings and the storage service for the blob of
                \* stream s: [uri, token, sasOk, miOk]
    asyncExecution, \* cfg.AsyncExecution
    credTried,  \* credTried[s]: the credentials createOrReplaceAppendBlob tried for
                \* stream s, in order
    \* the status folder (saveStatusReport)
    statusPath, \* the inode at the final path <seqNum>.status (0: no file)
    inodes,     \* inodes[i]: the content of inode i: [doc, len]
    spc,        \* position of the writer in saveStatusReport
    calls,      \* number of calls of saveStatusReport so far (the document number)
    tmpFile,    \* the inode of the writer's temporary file (0: none)
    fd,         \* the inode the reader has open (0: none)
    observed,   \* what the reader saw last: [kind, doc, len], kind "nothing" (it has
                \* not looked), "no file" or "content"
    shouldReportStatus, \* c.ShouldReportStatus of the command that reports
    requests,   \* number of requests sent to the remote endpoint (reporter.ReportStatus)
    returns,    \* what the calls of ReportStatusToLocalFile and ReportStatusToBlob
                \* returned, in order: [fn, err] ("" is nil)
    dataDir     \* constants.DataDir: "absent", "empty", or "files" (it holds the
                \* download directories of earlier enables)

\* The variables of the handler processes and the marker files.
hvars == <<pc, cmd, seq, mrseq, pidFile, gpc, tickerOn, tick, runErr, exitCode,
           trace, lastStatus>>

\* The variables of one call of download.WithRetries.
rvars == <<downloaders, dIdx, n, rpc, timesCalled, sleeps, downloadErrors, out,
           openBodies, closedBodies, source>>

\* The variables of the script's output and its sinks.
avars == <<sink, fileLen, cursor, blob, tail, appendErr, blobCfg, asyncExecution,
           credTried>>

\* The variables of the status folder.
svars == <<statusPath, inodes, spc, calls, tmpFile, fd, observed,
           shouldReportStatus, requests, returns, dataDir>>

vars == <<hvars, rvars, avars, svars>>

\* The standard output and the standard error of the managed script.
Streams == {"stdout", "stderr"}

Commands == {"enable", "disable"}

\* No handler process has been started and there are no marker files.
HandlerInit ==
    /\ pc = [p \in Procs |-> "idle"]
    /\ cmd = [p \in Procs |-> "none"]
    /\ seq = [p \in Procs |-> 0]
    /\ mrseq = <<>>
    /\ pidFile = <<>>
    /\ gpc = [p \in Procs |-> "none"]
    /\ tickerOn = [p \in Procs |-> FALSE]
    /\ tick = [p \in Procs |-> FALSE]
    /\ runErr = [p \in Procs |-> ""]
    /\ exitCode = [p \in Procs |-> "none"]
    /\ trace = [p \in Procs |-> <<>>]
    /\ lastStatus = [p \in Procs |-> "none"]

\* Settings that give an inline script and a script URI: the script is
\* downloaded and the inline script is saved.
BothSources == [script |-> TRUE, uri |-> TRUE]

\* No call of download.WithRetries is in progress.
RetryIdle ==
    /\ downloaders = <<>>
    /\ dIdx = 0
    /\ n = 0
    /\ rpc = "none"
    /\ timesCalled = <<>>
    /\ sleeps = <<>>
    /\ downloadErrors = <<>>
    /\ out = "none"
    /\ openBodies = 0
    /\ closedBodies = 0
    /\ source = BothSources

\* The handles of a stream: none (no blob URI configured), the blob reference
\* of the SAS token, the client of the managed identity.
NoSink == [ref |-> FALSE, client |-> FALSE]
SasSink == [ref |-> TRUE, client |-> FALSE]
ClientSink == [ref |-> FALSE, client |-> TRUE]

\* The settings name no blob for a stream: OutputBlobURI / ErrorBlobURI is "".
NoBlob == [uri |-> FALSE, token |-> FALSE, sasOk |-> FALSE, miOk |-> FALSE]

\* The settings of a stream's blob: no blob, or a blob URI with or without a
\* SAS token; sasOk: the create-or-replace with the SAS token succeeds, miOk:
\* the one with the managed identity succeeds.  Where the token succeeds the
\* managed identity is one that would succeed as well.
BlobCfgs ==
    {NoBlob,
     [uri |-> TRUE, token |-> TRUE, sasOk |-> TRUE, miOk |-> TRUE],
     [uri |-> TRUE, token |-> TRUE, sasOk |-> FALSE, miOk |-> TRUE],
     [uri |-> TRUE, token |-> TRUE, sasOk |-> FALSE, miOk |-> FALSE],
     [uri |-> TRUE, token |-> FALSE, sasOk |-> FALSE, miOk |-> TRUE],
     [uri |-> TRUE, token |-> FALSE, sasOk |-> FALSE, miOk |-> FALSE]}

\* No sink is configured and the script has written nothing.
AppendIdle ==
    /\ blobCfg = [s \in Streams |-> NoBlob]
    /\ asyncExecution = FALSE
    /\ credTried = [s \in Streams |-> <<>>]
    /\ sink = [s \in Streams |-> NoSink]
    /\ fileLen = [p \in Procs |-> [s \in Streams |-> 0]]
    /\ cursor = [p \in Procs |-> [s \in Streams |-> 0]]
    /\ blob = [p \in Procs |-> [s \in Streams |-> <<>>]]
    /\ tail = [p \in Procs |-> [s \in Streams |-> 0]]
    /\ appendErr = [p \in Procs |-> [s \in Streams |-> ""]]

\* The status folder is empty; nobody writes or reads it.
StatusIdle ==
    /\ statusPath = 0
    /\ inodes = <<>>
    /\ spc = "none"
    /\ calls = 0
    /\ tmpFile = 0
    /\ fd = 0
    /\ observed = [kind |-> "nothing", doc |-> 0, len |-> 0]
    /\ shouldReportStatus = TRUE
    /\ requests = 0
    /\ returns = <<>>
    /\ dataDir = "empty"

Init ==
    /\ HandlerInit
    /\ RetryIdle
    /\ AppendIdle
    /\ StatusIdle

\* ------------------------------------------------------------- helpers
Range(s) == {s[i] : i \in 1..Len(s)}

\* The handler process p exists (was started and has neither exited nor died).
Running(p) == pc[p] \notin {"idle", "done", "dead"}

Log(p, ev) == [trace EXCEPT ![p] = Append(@, ev)]

\* ------------------------------------------------------------- sequence guard
\* seqnum.IsSmallerThan(mrseqPath, seq): is the stored number smaller than seq.
\* An absent file is "no prior version"; readOk = FALSE is a failed read.
IsSmallerThan(file, s, readOk) ==
    IF file = <<>> THEN [smaller |-> TRUE, err |-> ""]
    ELSE IF ~readOk THEN [smaller |-> FALSE, err |-> "read failed"]
    ELSE [smaller |-> file[1] < s, err |-> ""]

\* seqnum.SaveSeqNum(mrseqPath, seq): overwrite the file with seq.
SaveSeqNum(file, s, writeOk) ==
    IF writeOk THEN [file |-> <<s>>, err |-> ""]
    ELSE [file |-> file, err |-> "write failed"]

\* Variant of checkAndSaveSeqNum: the number is saved before the comparison.
checkAndSaveSeqNumSaveFirst(s, file, readOk, writeOk) ==
    LET r == IsSmallerThan(file, s, readOk)
        w == SaveSeqNum(file, s, writeOk)
    IN
    IF r.err # "" THEN [shouldExit |-> FALSE, err |-> "failed to check sequence number", file |-> file]
    ELSE IF w.err # "" THEN [shouldExit |-> FALSE, err |-> "failed to save sequence number", file |-> w.file]
    ELSE [shouldExit |-> ~r.smaller, err |-> "", file |-> w.file]

\* Variant of checkAndSaveSeqNum: the result of the comparison is not looked at.
checkAndSaveSeqNumNoCompare(s, file, readOk, writeOk) ==
    LET r == IsSmallerThan(file, s, readOk) IN
    IF r.err # "" THEN [shouldExit |-> FALSE, err |-> "failed to check sequence number", file |-> file]
    ELSE LET w == SaveSeqNum(file, s, writeOk) IN
         IF w.err # "" THEN [shouldExit |-> FALSE, err |-> "failed to save sequence number", file |-> w.file]
         ELSE [shouldExit |-> FALSE, err |-> "", file |-> w.file]

\* checkAndSaveSeqNum(ctx, seq, mrseqPath): the result and the file it leaves.
checkAndSaveSeqNum(s, file, readOk, writeOk) ==
    LET r == IsSmallerThan(file, s, readOk) IN
    IF r.err # "" THEN [shouldExit |-> FALSE, err |-> "failed to check sequence number", file |-> file]
    ELSE IF ~r.smaller THEN [shouldExit |-> TRUE, err |-> "", file |-> file]
    ELSE LET w == SaveSeqNum(file, s, writeOk) IN
         IF w.err # "" THEN [shouldExit |-> FALSE, err |-> "failed to save sequence number", file |-> w.file]
         ELSE [shouldExit |-> FALSE, err |-> "", file |-> w.file]

\* ------------------------------------------------------------- pid marker
\* pid.KillPreviousExtension(pidFilePath): the processes it terminates.  It reads
\* the marker; when the marker names a process that is still running (same pid,
\* same start time) that process is terminated, together with the script it
\* supervises; otherwise it does nothing.
KillPreviousExtension == IF pidFile # <<>> /\ Running(pidFile[1]) THEN {pidFile[1]} ELSE {}

\* pid.SaveCurrentPidAndStartTime(pidFilePath) by process p: the file it leaves.
SaveCurrentPidAndStartTime(p) == <<p>>

\* pid.DeleteCurrentPidAndStartTime(pidFilePath): removes the file, whatever it holds.
DeleteCurrentPidAndStartTime == <<>>

\* The processes in S end: their main path, goroutine and ticker are gone.
PcAfterDeath(S, p, next) ==
    [q \in Procs |-> IF q = p THEN next ELSE IF q \in S THEN "dead" ELSE pc[q]]
GpcAfterDeath(S) == [q \in Procs |-> IF q \in S THEN "none" ELSE gpc[q]]
TickerAfterDeath(S) == [q \in Procs |-> IF q \in S THEN FALSE ELSE tickerOn[q]]
TickAfterDeath(S) == [q \in Procs |-> IF q \in S THEN FALSE ELSE tick[q]]
\* The memory of a process that ended is gone.
MemAfterDeath(S, f, blank) == [q \in Procs |-> IF q \in S THEN blank ELSE f[q]]

\* The managed script of p is alive: p is blocked in exec.ExecCmdInDir.
ScriptAlive(p) == pc[p] = "wait"

\* ------------------------------------------------------------- dispatcher
\* The launcher shim starts the handler binary with a command; the dispatcher
\* builds the metadata and runs Pre when the command has one (enable only).
\* Before it calls Invoke it reports the status "transitioning".
\* Processes are started in the order of their numbers.
Start(p, c, v) ==
    /\ pc[p] = "idle"
    /\ IF p = 1 THEN TRUE ELSE pc[p - 1] # "idle"
    /\ IF c = "enable" THEN TRUE ELSE v = 0
    /\ cmd' = [cmd EXCEPT ![p] = c]
    /\ seq' = [seq EXCEPT ![p] = v]
    /\ pc' = [pc EXCEPT ![p] = IF c = "enable" THEN "pre" ELSE "invoke"]
    /\ lastStatus' = [lastStatus EXCEPT ![p] = IF c = "enable" THEN @ ELSE "transitioning"]
    /\ UNCHANGED <<mrseq, pidFile, gpc, tickerOn, tick, runErr, exitCode, trace>>
    /\ UNCHANGED <<rvars, avars, svars>>

\* Variant of enablePre: "already processed" is logged and nil is returned.
enablePreReturnsNil(r) ==
    IF r.err # "" THEN [err |-> "failed to process sequence number", cleanup |-> FALSE]
    ELSE [err |-> "", cleanup |-> FALSE]

\* Variant of enablePre: "already processed" returns the error without Cleanup.
enablePreNoCleanup(r) ==
    IF r.err # "" THEN [err |-> "failed to process sequence number", cleanup |-> FALSE]
    ELSE IF r.shouldExit
    THEN [err |-> "the script configuration has already been processed, will not run again",
          cleanup |-> FALSE]
    ELSE [err |-> "", cleanup |-> FALSE]

\* enablePre, given the result r of checkAndSaveSeqNum: the error it returns
\* ("" is nil) and whether it has run Cleanup.
enablePre(r) ==
    IF r.err # "" THEN [err |-> "failed to process sequence number", cleanup |-> FALSE]
    ELSE IF r.shouldExit
    THEN [err |-> "the script configuration has already been processed, will not run again",
          cleanup |-> TRUE]
    ELSE [err |-> "", cleanup |-> FALSE]

\* The dispatcher runs Pre.  When Pre returns an error the process ends with
\* the failure exit code and Invoke is not called; otherwise the dispatcher
\* reports "transitioning" and goes on to Invoke.
Pre(p) ==
    /\ pc[p] = "pre"
    /\ \E readOk \in BOOLEAN, writeOk \in BOOLEAN :
         LET r == checkAndSaveSeqNum(seq[p], mrseq, readOk, writeOk)
             o == enablePre(r)
         IN
         /\ mrseq' = r.file
         /\ trace' = [trace EXCEPT ![p] = @ \o
                        (IF r.err # "" THEN <<"pre_failed">>
                         ELSE IF r.shouldExit THEN <<"pre_skip">> ELSE <<"pre_ok">>)
                        \o (IF o.cleanup THEN <<"cleanup">> ELSE <<>>)]
         /\ IF o.err # ""
              THEN /\ runErr' = [runErr EXCEPT ![p] = o.err]
                   /\ exitCode' = [exitCode EXCEPT ![p] = "FailExitCode"]
                   /\ pc' = [pc EXCEPT ![p] = "done"]
                   /\ UNCHANGED lastStatus
              ELSE /\ pc' = [pc EXCEPT ![p] = "invoke"]
                   /\ lastStatus' = [lastStatus EXCEPT ![p] = "transitioning"]
                   /\ UNCHANGED <<runErr, exitCode>>
    /\ UNCHANGED <<cmd, seq, pidFile, gpc, tickerOn, tick>>
    /\ UNCHANGED <<rvars, avars, svars>>

\* The dispatcher, when Invoke has returned err: it reports the outcome
\* (ReportStatus) and the process exits with the exit code of Invoke.
ReportStatus(err) == IF err = "" THEN <<"status_success">> ELSE <<"status_error">>

\* The status kind of that report.
StatusKind(err) == IF err = "" THEN "success" ELSE "error"

\* ------------------------------------------------------------- enable
\* Variant of StageExitCode: one exit code for every failing stage.
StageExitCodeShared(stage) ==
    IF stage = "none" THEN "ExitCode_Okay" ELSE "ExitCode_BlobCreateOrReplaceFailed"

\* The stages of enable before the script is run, in order, with the exit
\* code each one returns when it fails.
StageExitCode(stage) ==
    CASE stage = "settings" -> "ExitCode_GetHandlerSettingsFailed"
      [] stage = "immediate" -> "ExitCode_ImmediateEnableFailed"
      [] stage = "script" -> "ExitCode_ScriptBlobDownloadFailed"
      [] stage = "artifacts" -> "ExitCode_DownloadArtifactFailed"
      [] stage = "outputBlob" -> "ExitCode_BlobCreateOrReplaceFailed"
      [] stage = "errorBlob" -> "ExitCode_BlobCreateOrReplaceFailed"
      [] OTHER -> "ExitCode_Okay"

Stages == {"settings", "immediate", "script", "artifacts", "outputBlob", "errorBlob"}

\* Variant of createOrReplaceAppendBlob: the SAS reference is returned
\* whenever a token was given, whether its creation succeeded or not.
createOrReplaceAppendBlobStaleRef(c) ==
    IF ~c.uri THEN [ref |-> FALSE, client |-> FALSE, err |-> "", tried |-> <<>>]
    ELSE LET sasErr == c.token /\ ~c.sasOk
             miTried == ~c.token \/ sasErr
             miErr == miTried /\ ~c.miOk
             tried == (IF c.token THEN <<"sas">> ELSE <<>>)
                         \o (IF miTried THEN <<"mi">> ELSE <<>>)
         IN  IF (~c.token /\ miErr) \/ (sasErr /\ miErr)
             THEN [ref |-> FALSE, client |-> FALSE,
                   err |-> IF sasErr THEN "sas failed" ELSE "mi failed", tried |-> tried]
             ELSE [ref |-> c.token, client |-> miTried /\ c.miOk,
                   err |-> "", tried |-> tried]

\* Variant of createOrReplaceAppendBlob: the managed identity is tried
\* whatever the SAS token gave.
createOrReplaceAppendBlobBoth(c) ==
    IF ~c.uri THEN [ref |-> FALSE, client |-> FALSE, err |-> "", tried |-> <<>>]
    ELSE LET sasErr == c.token /\ ~c.sasOk
             miErr == ~c.miOk
             tried == (IF c.token THEN <<"sas">> ELSE <<>>) \o <<"mi">>
         IN  IF (~c.token /\ miErr) \/ (sasErr /\ miErr)
             THEN [ref |-> FALSE, client |-> FALSE,
                   err |-> IF sasErr THEN "sas failed" ELSE "mi failed", tried |-> tried]
             ELSE [ref |-> c.token /\ c.sasOk, client |-> c.miOk, err |-> "", tried |-> tried]

\* Variant of createOrReplaceAppendBlob: a failed SAS token is the end, the
\* managed identity is tried only without a token.
createOrReplaceAppendBlobNoFallback(c) ==
    IF ~c.uri THEN [ref |-> FALSE, client |-> FALSE, err |-> "", tried |-> <<>>]
    ELSE IF c.token
         THEN IF c.sasOk
              THEN [ref |-> TRUE, client |-> FALSE, err |-> "", tried |-> <<"sas">>]
              ELSE [ref |-> FALSE, client |-> FALSE, err |-> "sas failed", tried |-> <<"sas">>]
         ELSE IF c.miOk
              THEN [ref |-> FALSE, client |-> TRUE, err |-> "", tried |-> <<"mi">>]
              ELSE [ref |-> FALSE, client |-> FALSE, err |-> "mi failed", tried |-> <<"mi">>]

\* createOrReplaceAppendBlob(blobUri, sasToken, managedIdentity, ctx) under
\* the settings c: the handles it returns (TRUE: not nil), its error ("" is
\* nil) and the credentials it tried, in order.  With a SAS token
\* download.CreateOrReplaceAppendBlob is tried first; the managed identity is
\* tried when there is no token or the token failed; it fails when every
\* credential it tried failed, with the error of the token if that was tried.
createOrReplaceAppendBlob(c) ==
    IF ~c.uri THEN [ref |-> FALSE, client |-> FALSE, err |-> "", tried |-> <<>>]
    ELSE LET sasErr == c.token /\ ~c.sasOk
             miTried == ~c.token \/ sasErr
             miErr == miTried /\ ~c.miOk
             tried == (IF c.token THEN <<"sas">> ELSE <<>>)
                         \o (IF miTried THEN <<"mi">> ELSE <<>>)
         IN  IF (~c.token /\ miErr) \/ (sasErr /\ miErr)
             THEN [ref |-> FALSE, client |-> FALSE,
                   err |-> IF sasErr THEN "sas failed" ELSE "mi failed", tried |-> tried]
             ELSE [ref |-> c.token /\ c.sasOk, client |-> miTried /\ c.miOk,
                   err |-> "", tried |-> tried]

\* The stage at which the creation of the blobs makes enable fail, "none"
\* when it does not: the output blob is created first, the error blob after
\* it; a blob is created only if its URI is set.
BlobStage ==
    IF createOrReplaceAppendBlob(blobCfg["stdout"]).err # "" THEN "outputBlob"
    ELSE IF createOrReplaceAppendBlob(blobCfg["stderr"]).err # "" THEN "errorBlob"
    ELSE "none"

\* The streams whose blob enable has tried to create when it fails at stage
\* `failed`, or runs through ("none").
BlobsReached(failed) ==
    IF failed \in {"settings", "immediate", "script", "artifacts"} THEN {}
    ELSE IF failed = "outputBlob" THEN {"stdout"}
    ELSE Streams

\* What the download of the script lets enable do: with no download engine
\* in the picture (rpc = "none") anything; before the download only the
\* stages before it can fail; a download that returned nil and an error makes
\* the script stage fail; after a download that returned the body the stages
\* before it cannot fail any more.  While the download runs enable waits.
DownloadAllows(failed) ==
    CASE rpc = "none" -> TRUE
      [] rpc = "call" -> failed \in {"settings", "immediate"}
      [] rpc = "returned" /\ out = "nil" -> failed = "script"
      [] rpc = "returned" /\ out = "body" -> failed \notin {"settings", "immediate"}
      [] OTHER -> FALSE

\* Variant of statusToReport: transitioning whatever the settings say.
statusToReportTransitioning == "transitioning"

\* statusToReport, the status the reports of enable carry while the script
\* runs: StatusTransitioning, or StatusSuccess when cfg.AsyncExecution.
statusToReport == IF asyncExecution THEN "success" ELSE "transitioning"

\* enable up to the start of the goroutine: settings, downloads, blob
\* creation, the report of success for an asynchronous execution, the ticker
\* and the goroutine.  failed is the stage that fails, or "none"; a failed
\* stage makes enable return its error and exit code, and the dispatcher
\* reports the error.
enable(p, failed) ==
    /\ pc[p] = "invoke"
    /\ cmd[p] = "enable"
    /\ DownloadAllows(failed)
    /\ IF failed \in {"outputBlob", "errorBlob", "none"} THEN failed = BlobStage ELSE TRUE
    /\ credTried' = [s \in Streams |->
                        IF s \in BlobsReached(failed)
                        THEN createOrReplaceAppendBlob(blobCfg[s]).tried
                        ELSE credTried[s]]
    /\ IF failed # "none"
         THEN /\ runErr' = [runErr EXCEPT ![p] = failed]
              /\ exitCode' = [exitCode EXCEPT ![p] = StageExitCode(failed)]
              /\ trace' = [trace EXCEPT ![p] = @ \o <<"setup_failed">> \o ReportStatus(failed)]
              /\ pc' = [pc EXCEPT ![p] = "done"]
              /\ lastStatus' = [lastStatus EXCEPT ![p] = StatusKind(failed)]
              /\ UNCHANGED <<gpc, tickerOn, sink>>
         ELSE /\ trace' = [trace EXCEPT ![p] = @ \o
                              (IF asyncExecution THEN <<"report_async">> ELSE <<>>)
                              \o <<"go">>]
              /\ lastStatus' = [lastStatus EXCEPT ![p] =
                                  IF asyncExecution THEN statusToReport ELSE @]
              /\ tickerOn' = [tickerOn EXCEPT ![p] = TRUE]
              /\ gpc' = [gpc EXCEPT ![p] = "select"]
              /\ pc' = [pc EXCEPT ![p] = "runcmd"]
              /\ sink' = [s \in Streams |->
                            [ref |-> createOrReplaceAppendBlob(blobCfg[s]).ref,
                             client |-> createOrReplaceAppendBlob(blobCfg[s]).client]]
              /\ UNCHANGED <<runErr, exitCode>>
    /\ UNCHANGED <<cmd, seq, mrseq, pidFile, tick>>
    /\ UNCHANGED <<fileLen, cursor, blob, tail, appendErr, blobCfg, asyncExecution>>
    /\ UNCHANGED <<rvars, svars>>

\* runCmd up to pid.KillPreviousExtension(ctx, metadata.PidFilePath).  An
\* inline script is first saved to a file; when that fails (saveOk = FALSE)
\* runCmd returns at once, nothing having been deferred, and enable goes on
\* with ticker.Stop() (buffered: a tick is left in ticker.C).
RunCmdKill(p, saveOk, buffered) ==
    /\ pc[p] = "runcmd"
    /\ IF saveOk
         THEN LET S == KillPreviousExtension IN
              /\ pc' = PcAfterDeath(S, p, "savepid")
              /\ gpc' = GpcAfterDeath(S)
              /\ tickerOn' = TickerAfterDeath(S)
              /\ tick' = TickAfterDeath(S)
              /\ runErr' = MemAfterDeath(S, runErr, "")
              /\ exitCode' = MemAfterDeath(S, exitCode, "none")
              /\ trace' = Log(p, "kill")
         ELSE /\ runErr' = [runErr EXCEPT ![p] = "failed to save script to file"]
              /\ exitCode' = [exitCode EXCEPT ![p] = "ExitCode_SaveScriptFailed"]
              /\ trace' = Log(p, "savescript_failed")
              /\ tickerOn' = [tickerOn EXCEPT ![p] = FALSE]
              /\ tick' = [tick EXCEPT ![p] = buffered]
              /\ pc' = [pc EXCEPT ![p] = "send"]
              /\ UNCHANGED gpc
    /\ UNCHANGED <<cmd, seq, mrseq, pidFile>>
    /\ UNCHANGED lastStatus
    /\ UNCHANGED <<rvars, avars, svars>>

\* runCmd: pid.SaveCurrentPidAndStartTime(metadata.PidFilePath), and the
\* deletion of the marker is deferred.
RunCmdSavePid(p) ==
    /\ pc[p] = "savepid"
    /\ pidFile' = SaveCurrentPidAndStartTime(p)
    /\ trace' = Log(p, "savepid")
    /\ pc' = [pc EXCEPT ![p] = "exec"]
    /\ UNCHANGED <<cmd, seq, mrseq, gpc, tickerOn, tick, runErr, exitCode>>
    /\ UNCHANGED lastStatus
    /\ UNCHANGED <<rvars, avars, svars>>

\* Variant of RunCmdExec: the marker is written once more after the spawn.
RunCmdExecThenSave(p, started) ==
    /\ pc[p] = "exec"
    /\ IF started
         THEN /\ trace' = [trace EXCEPT ![p] = @ \o <<"spawn", "savepid">>]
              /\ pidFile' = SaveCurrentPidAndStartTime(p)
              /\ pc' = [pc EXCEPT ![p] = "wait"]
              /\ UNCHANGED <<runErr, exitCode>>
         ELSE /\ runErr' = [runErr EXCEPT ![p] = "failed to execute command"]
              /\ exitCode' = [exitCode EXCEPT ![p] = "ExitCode_ScriptFailed"]
              /\ trace' = Log(p, "spawn_failed")
              /\ pc' = [pc EXCEPT ![p] = "defer"]
              /\ UNCHANGED pidFile
    /\ UNCHANGED <<cmd, seq, mrseq, gpc, tickerOn, tick>>
    /\ UNCHANGED lastStatus
    /\ UNCHANGED <<rvars, avars, svars>>

\* runCmd: exec.ExecCmdInDir starts the script; started = FALSE when the
\* script could not be spawned, and ExecCmdInDir returns an error at once.
RunCmdExec(p, started) ==
    /\ pc[p] = "exec"
    /\ IF started
         THEN /\ trace' = Log(p, "spawn")
              /\ pc' = [pc EXCEPT ![p] = "wait"]
              /\ UNCHANGED <<runErr, exitCode>>
         ELSE /\ runErr' = [runErr EXCEPT ![p] = "failed to execute command"]
              /\ exitCode' = [exitCode EXCEPT ![p] = "ExitCode_ScriptFailed"]
              /\ trace' = Log(p, "spawn_failed")
              /\ pc' = [pc EXCEPT ![p] = "defer"]
    /\ UNCHANGED <<cmd, seq, mrseq, pidFile, gpc, tickerOn, tick>>
    /\ UNCHANGED lastStatus
    /\ UNCHANGED <<rvars, avars, svars>>

\* The managed script of p exits; ExecCmdInDir returns its error and exit code.
ScriptExit(p, ok) ==
    /\ pc[p] = "wait"
    /\ runErr' = [runErr EXCEPT ![p] = IF ok THEN "" ELSE "failed to execute command"]
    /\ exitCode' = [exitCode EXCEPT ![p] = IF ok THEN "ExitCode_Okay" ELSE "ExitCode_ScriptFailed"]
    /\ trace' = Log(p, "script_exit")
    /\ pc' = [pc EXCEPT ![p] = "defer"]
    /\ UNCHANGED <<cmd, seq, mrseq, pidFile, gpc, tickerOn, tick>>
    /\ UNCHANGED lastStatus
    /\ UNCHANGED <<rvars, avars, svars>>

\* Variant of RunCmdReturn: the marker is deleted on the success path only
\* (a plain call after ExecCmdInDir instead of a deferred one).
RunCmdReturnNoDefer(p, buffered) ==
    /\ pc[p] = "defer"
    /\ IF runErr[p] = ""
         THEN /\ pidFile' = DeleteCurrentPidAndStartTime
              /\ trace' = Log(p, "delpid")
         ELSE UNCHANGED <<pidFile, trace>>
    /\ tickerOn' = [tickerOn EXCEPT ![p] = FALSE]
    /\ tick' = [tick EXCEPT ![p] = buffered]
    /\ pc' = [pc EXCEPT ![p] = "send"]
    /\ UNCHANGED <<cmd, seq, mrseq, gpc, runErr, exitCode>>
    /\ UNCHANGED lastStatus
    /\ UNCHANGED <<rvars, avars, svars>>

\* runCmd returns: the deferred pid.DeleteCurrentPidAndStartTime runs; back
\* in enable, ticker.Stop().  No tick is sent after it; a tick already
\* buffered in ticker.C stays there (buffered: there is one).
RunCmdReturn(p, buffered) ==
    /\ pc[p] = "defer"
    /\ pidFile' = DeleteCurrentPidAndStartTime
    /\ trace' = Log(p, "delpid")
    /\ tickerOn' = [tickerOn EXCEPT ![p] = FALSE]
    /\ tick' = [tick EXCEPT ![p] = buffered]
    /\ pc' = [pc EXCEPT ![p] = "send"]
    /\ UNCHANGED <<cmd, seq, mrseq, gpc, runErr, exitCode>>
    /\ UNCHANGED lastStatus
    /\ UNCHANGED <<rvars, avars, svars>>

\* Variant of SendDone: the channel is buffered, the send does not wait for
\* the goroutine.
SendDoneBuffered(p) ==
    /\ pc[p] = "send"
    /\ pc' = [pc EXCEPT ![p] = "final"]
    /\ trace' = Log(p, "stop")
    /\ UNCHANGED <<cmd, seq, mrseq, pidFile, gpc, tickerOn, tick, runErr, exitCode>>
    /\ UNCHANGED lastStatus
    /\ UNCHANGED <<rvars, avars, svars>>

\* Variant of SendDone: the goroutine receives from done and goes on with its
\* loop instead of returning.
SendDoneNoReturn(p) ==
    /\ pc[p] = "send"
    /\ gpc[p] = "select"
    /\ pc' = [pc EXCEPT ![p] = "final"]
    /\ trace' = Log(p, "stop")
    /\ UNCHANGED <<cmd, seq, mrseq, pidFile, gpc, tickerOn, tick, runErr, exitCode>>
    /\ UNCHANGED lastStatus
    /\ UNCHANGED <<rvars, avars, svars>>

\* enable: done <- true on the unbuffered channel, received by the goroutine
\* in its select ("case <-done: return").  The send completes only when the
\* goroutine receives, and the goroutine returns on receiving.
SendDone(p) ==
    /\ pc[p] = "send"
    /\ gpc[p] = "select"
    /\ pc' = [pc EXCEPT ![p] = "final"]
    /\ gpc' = [gpc EXCEPT ![p] = "returned"]
    /\ tick' = [tick EXCEPT ![p] = FALSE]
    /\ trace' = Log(p, "stop")
    /\ UNCHANGED <<cmd, seq, mrseq, pidFile, tickerOn, runErr, exitCode>>
    /\ UNCHANGED lastStatus
    /\ UNCHANGED <<rvars, avars, svars>>

\* ------------------------------------------------------------- output and sinks
\* Bytes m+1 .. k of a capture file, named by their place in the file.
Bytes(m, k) == [i \in 1..(k - m) |-> m + i]

\* files.GetFileFromPosition(sourceFilePath, position): the bytes of the file
\* from the position to its end.
GetFileFromPosition(len, position) == Bytes(position, len)

\* Variant of appendToBlob: it reads the file from its start.
appendToBlobFromStart(len, h, position, outcome) ==
    IF h.ref \/ h.client
    THEN IF outcome = "readFailed"
         THEN [position |-> position, accepted |-> <<>>, err |-> "read failed"]
         ELSE IF len > 0
              THEN IF outcome = "appendFailed"
                   THEN [position |-> position, accepted |-> <<>>, err |-> "append failed"]
                   ELSE [position |-> len, accepted |-> GetFileFromPosition(len, 0), err |-> ""]
              ELSE [position |-> position, accepted |-> <<>>, err |-> ""]
    ELSE [position |-> position, accepted |-> <<>>, err |-> ""]

\* Variant of appendToBlob: the position is not advanced after the append.
appendToBlobNoAdvance(len, h, position, outcome) ==
    IF h.ref \/ h.client
    THEN IF outcome = "readFailed"
         THEN [position |-> position, accepted |-> <<>>, err |-> "read failed"]
         ELSE IF len - position > 0
              THEN IF outcome = "appendFailed"
                   THEN [position |-> position, accepted |-> <<>>, err |-> "append failed"]
                   ELSE [position |-> position,
                         accepted |-> GetFileFromPosition(len, position), err |-> ""]
              ELSE [position |-> position, accepted |-> <<>>, err |-> ""]
    ELSE [position |-> position, accepted |-> <<>>, err |-> ""]

\* appendToBlob(sourceFilePath, appendBlobRef, appendBlobClient,
\* outputFilePosition, ctx) on a file of len bytes: the new position, the
\* bytes the blob accepted, the error.  outcome is what the file system and
\* the storage service do: "ok", "readFailed" (GetFileFromPosition returns an
\* error), "appendFailed" (AppendBlock returns an error, nothing is appended).
appendToBlob(len, h, position, outcome) ==
    IF h.ref \/ h.client
    THEN IF outcome = "readFailed"
         THEN [position |-> position, accepted |-> <<>>, err |-> "read failed"]
         ELSE IF len - position > 0
              THEN IF outcome = "appendFailed"
                   THEN [position |-> position, accepted |-> <<>>, err |-> "append failed"]
                   ELSE [position |-> position + (len - position),
                         accepted |-> GetFileFromPosition(len, position), err |-> ""]
              ELSE [position |-> position, accepted |-> <<>>, err |-> ""]
    ELSE [position |-> position, accepted |-> <<>>, err |-> ""]

\* What can happen to the appendToBlob of stream s of process p: no call is
\* made without a handle, AppendBlock is called only with new bytes.
Outcomes(p, s) ==
    IF ~(sink[s].ref \/ sink[s].client) THEN {"ok"}
    ELSE IF fileLen[p][s] - cursor[p][s] > 0 THEN {"ok", "readFailed", "appendFailed"}
    ELSE {"ok", "readFailed"}

PassResults(p) == {res \in [Streams -> {"ok", "readFailed", "appendFailed"}] :
                      \A s \in Streams : res[s] \in Outcomes(p, s)}

\* The two appendToBlob calls of a pass of process p, stdout then stderr.
AppendPass(p, res) ==
    [s \in Streams |-> appendToBlob(fileLen[p][s], sink[s], cursor[p][s], res[s])]

\* Variant of EnableFinal: there is no final pass.
EnableFinalNoPass(p, res) ==
    /\ pc[p] = "final"
    /\ trace' = [trace EXCEPT ![p] = @ \o <<"final_tail", "final_append", "cleanup">>
                                     \o ReportStatus(runErr[p])]
    /\ pc' = [pc EXCEPT ![p] = "done"]
    /\ lastStatus' = [lastStatus EXCEPT ![p] = StatusKind(runErr[p])]
    /\ UNCHANGED <<cmd, seq, mrseq, pidFile, gpc, tickerOn, tick, runErr, exitCode>>
    /\ UNCHANGED <<rvars, avars, svars>>

\* Variant of EnableFinal: an error of the final appendToBlob calls is
\* returned as the error of enable.
EnableFinalAppendError(p, res) ==
    /\ pc[p] = "final"
    /\ LET r == AppendPass(p, res)
           e == IF r["stdout"].err # "" THEN r["stdout"].err ELSE r["stderr"].err
           err == IF e # "" THEN e ELSE runErr[p]
           code == IF e # "" THEN "ExitCode_BlobCreateOrReplaceFailed" ELSE exitCode[p]
       IN  /\ cursor' = [cursor EXCEPT ![p] = [s \in Streams |-> r[s].position]]
           /\ blob' = [blob EXCEPT ![p] = [s \in Streams |-> @[s] \o r[s].accepted]]
           /\ appendErr' = [appendErr EXCEPT ![p] = [s \in Streams |-> r[s].err]]
           /\ runErr' = [runErr EXCEPT ![p] = err]
           /\ exitCode' = [exitCode EXCEPT ![p] = code]
           /\ trace' = [trace EXCEPT ![p] = @ \o <<"final_tail", "final_append", "cleanup">>
                                            \o ReportStatus(err)]
           /\ lastStatus' = [lastStatus EXCEPT ![p] = StatusKind(err)]
    /\ pc' = [pc EXCEPT ![p] = "done"]
    /\ tail' = [tail EXCEPT ![p] = fileLen[p]]
    /\ UNCHANGED <<cmd, seq, mrseq, pidFile, gpc, tickerOn, tick>>
    /\ UNCHANGED <<rvars, sink, fileLen, blobCfg, asyncExecution, credTried, svars>>

\* enable: the final pass on the main path (getOutput, then appendToBlob for
\* stdout and for stderr), then c.Functions.Cleanup and the return to the
\* dispatcher.
EnableFinal(p, res) ==
    /\ pc[p] = "final"
    /\ trace' = [trace EXCEPT ![p] = @ \o <<"final_tail", "final_append", "cleanup">>
                                     \o ReportStatus(runErr[p])]
    /\ pc' = [pc EXCEPT ![p] = "done"]
    /\ lastStatus' = [lastStatus EXCEPT ![p] = StatusKind(runErr[p])]
    /\ tail' = [tail EXCEPT ![p] = fileLen[p]]
    /\ LET r == AppendPass(p, res)
       IN  /\ cursor' = [cursor EXCEPT ![p] = [s \in Streams |-> r[s].position]]
           /\ blob' = [blob EXCEPT ![p] = [s \in Streams |-> @[s] \o r[s].accepted]]
           /\ appendErr' = [appendErr EXCEPT ![p] = [s \in Streams |-> r[s].err]]
    /\ UNCHANGED <<cmd, seq, mrseq, pidFile, gpc, tickerOn, tick, runErr, exitCode>>
    /\ UNCHANGED <<rvars, sink, fileLen, blobCfg, asyncExecution, credTried, svars>>

\* ------------------------------------------------------------- periodic goroutine
\* The goroutine's select takes "case <-ticker.C": a tick the running ticker
\* sends, or the tick left in the buffer of ticker.C by a stopped ticker.
GoTick(p) ==
    /\ Running(p)
    /\ gpc[p] = "select"
    /\ IF tickerOn[p] THEN TRUE ELSE tick[p]
    /\ tick' = [tick EXCEPT ![p] = FALSE]
    /\ gpc' = [gpc EXCEPT ![p] = "work"]
    /\ UNCHANGED <<pc, cmd, seq, mrseq, pidFile, tickerOn, runErr, exitCode, trace>>
    /\ UNCHANGED lastStatus
    /\ UNCHANGED <<rvars, avars, svars>>

\* The body of the tick case: getOutput, ReportInstanceView, appendToBlob for
\* stdout and stderr; then the goroutine is back at its select.
GoWork(p, res) ==
    /\ Running(p)
    /\ gpc[p] = "work"
    /\ gpc' = [gpc EXCEPT ![p] = "select"]
    /\ lastStatus' = [lastStatus EXCEPT ![p] = statusToReport]
    /\ tail' = [tail EXCEPT ![p] = fileLen[p]]
    /\ LET r == AppendPass(p, res)
       IN  /\ cursor' = [cursor EXCEPT ![p] = [s \in Streams |-> r[s].position]]
           /\ blob' = [blob EXCEPT ![p] = [s \in Streams |-> @[s] \o r[s].accepted]]
           /\ appendErr' = [appendErr EXCEPT ![p] = [s \in Streams |-> r[s].err]]
    /\ UNCHANGED <<pc, cmd, seq, mrseq, pidFile, tickerOn, tick, runErr, exitCode, trace>>
    /\ UNCHANGED <<rvars, sink, fileLen, blobCfg, asyncExecution, credTried, svars>>

\* ------------------------------------------------------------- disable
\* disable: immediatecmds.Disable first; when it fails disable returns its
\* error and exit code.
DisableImmediate(p, ok) ==
    /\ pc[p] = "invoke"
    /\ cmd[p] = "disable"
    /\ IF ok
         THEN /\ trace' = Log(p, "immediate_ok")
              /\ pc' = [pc EXCEPT ![p] = "dkill"]
              /\ UNCHANGED <<runErr, exitCode, lastStatus>>
         ELSE /\ trace' = [trace EXCEPT ![p] = @ \o <<"immediate_failed">>
                                               \o ReportStatus("failed")]
              /\ runErr' = [runErr EXCEPT ![p] = "immediate disable failed"]
              /\ exitCode' = [exitCode EXCEPT ![p] = "ExitCode_ImmediateDisableFailed"]
              /\ lastStatus' = [lastStatus EXCEPT ![p] = StatusKind("failed")]
              /\ pc' = [pc EXCEPT ![p] = "done"]
    /\ UNCHANGED <<cmd, seq, mrseq, pidFile, gpc, tickerOn, tick>>
    /\ UNCHANGED <<rvars, avars, svars>>

\* disable: pid.KillPreviousExtension, then the return with ExitCode_Okay.
DisableKill(p) ==
    /\ pc[p] = "dkill"
    /\ LET S == KillPreviousExtension IN
         /\ pc' = PcAfterDeath(S, p, "done")
         /\ gpc' = GpcAfterDeath(S)
         /\ tickerOn' = TickerAfterDeath(S)
         /\ tick' = TickAfterDeath(S)
         /\ runErr' = MemAfterDeath(S, runErr, "")
         /\ exitCode' = [MemAfterDeath(S, exitCode, "none") EXCEPT ![p] = "ExitCode_Okay"]
    /\ trace' = [trace EXCEPT ![p] = @ \o <<"kill">> \o ReportStatus("")]
    /\ lastStatus' = [lastStatus EXCEPT ![p] = StatusKind("")]
    /\ UNCHANGED <<cmd, seq, mrseq, pidFile>>
    /\ UNCHANGED <<rvars, avars, svars>>

\* ------------------------------------------------------------- environment
\* A handler process dies with its script while the script runs (the machine
\* restarts, the process group is killed from outside); the files stay as
\* they are.
Crash(p) ==
    /\ ScriptAlive(p)
    /\ pc' = PcAfterDeath({p}, 0, "dead")
    /\ gpc' = GpcAfterDeath({p})
    /\ tickerOn' = TickerAfterDeath({p})
    /\ tick' = TickAfterDeath({p})
    /\ runErr' = MemAfterDeath({p}, runErr, "")
    /\ exitCode' = MemAfterDeath({p}, exitCode, "none")
    /\ UNCHANGED <<cmd, seq, mrseq, pidFile, trace>>
    /\ UNCHANGED lastStatus
    /\ UNCHANGED <<rvars, avars, svars>>

\* The steps of the main path of process p.
Main(p) ==
    \/ Pre(p)
    \/ \E failed \in Stages \cup {"none"} : enable(p, failed)
    \/ \E saveOk \in BOOLEAN, buffered \in BOOLEAN : RunCmdKill(p, saveOk, buffered)
    \/ RunCmdSavePid(p)
    \/ \E started \in BOOLEAN : RunCmdExec(p, started)
    \/ \E buffered \in BOOLEAN : RunCmdReturn(p, buffered)
    \/ SendDone(p)
    \/ \E res \in PassResults(p) : EnableFinal(p, res)
    \/ \E ok \in BOOLEAN : DisableImmediate(p, ok)
    \/ DisableKill(p)

\* The steps of the periodic goroutine of process p.
Go(p) ==
    \/ GoTick(p)
    \/ \E res \in PassResults(p) : GoWork(p, res)

\* A step of the handler processes.
HandlerNext ==
    \/ \E p \in Procs, c \in Commands, v \in Versions : Start(p, c, v)
    \/ \E p \in Procs : Main(p)
    \/ \E p \in Procs : Go(p)
    \/ \E p \in Procs, ok \in BOOLEAN : ScriptExit(p, ok)
    \/ \E p \in Procs : Crash(p)

Next == HandlerNext

Spec == Init /\ [][Next]_vars

\* The code's scheduling: the main path and the goroutine of a running
\* process each take their next step eventually (the Go scheduler runs every
\* runnable goroutine, and every call returns).  No fairness is assumed of the
\* environment: the start of a process, the exit of a script and a crash.
FairSpec == Spec /\ \A p \in Procs : WF_vars(Main(p)) /\ WF_vars(Go(p))

\* ------------------------------------------------------------- one enable with sinks
\* The capture files hold at most MaxBytes bytes each.
MaxBytes == 2

\* The settings name for each stream no blob or a blob with its credentials,
\* and ask for asynchronous execution or not.
AppendInit ==
    /\ HandlerInit
    /\ RetryIdle
    /\ StatusIdle
    /\ blobCfg \in [Streams -> BlobCfgs]
    /\ asyncExecution \in BOOLEAN
    /\ credTried = [s \in Streams |-> <<>>]
    /\ sink = [s \in Streams |-> NoSink]
    /\ fileLen = [p \in Procs |-> [s \in Streams |-> 0]]
    /\ cursor = [p \in Procs |-> [s \in Streams |-> 0]]
    /\ blob = [p \in Procs |-> [s \in Streams |-> <<>>]]
    /\ tail = [p \in Procs |-> [s \in Streams |-> 0]]
    /\ appendErr = [p \in Procs |-> [s \in Streams |-> ""]]

\* The managed script of p writes a byte to its stdout or its stderr, which
\* exec.ExecCmdInDir redirects to the capture files.
ScriptWrite(p, s) ==
    /\ ScriptAlive(p)
    /\ fileLen[p][s] < MaxBytes
    /\ fileLen' = [fileLen EXCEPT ![p][s] = @ + 1]
    /\ UNCHANGED <<hvars, rvars, sink, cursor, blob, tail, appendErr, svars>>
    /\ UNCHANGED <<blobCfg, asyncExecution, credTried>>

\* One handler invocation at a time, and its script writes output.
AppendNext ==
    \/ \E c \in Commands : Start(1, c, 0)
    \/ Main(1)
    \/ Go(1)
    \/ \E ok \in BOOLEAN : ScriptExit(1, ok)
    \/ Crash(1)
    \/ \E s \in Streams : ScriptWrite(1, s)

AppendSpec == AppendInit /\ [][AppendNext]_vars

\* ============================================================= properties
\* What the history says.
Did(p, ev) == ev \in Range(trace[p])
Enables == {p \in Procs : cmd[p] = "enable"}
Disables == {p \in Procs : cmd[p] = "disable"}

\* The number of managed scripts spawned for version v.
Spawned(v) == Cardinality({p \in Enables : seq[p] = v /\ Did(p, "spawn")})

\* The versions for which the sequence guard has given a verdict.
Checked == {seq[p] : p \in {q \in Enables : Did(q, "pre_ok") \/ Did(q, "pre_skip")}}

Max(S) == CHOOSE x \in S : \A y \in S : y <= x

\* The marker as a number; an absent marker is below every version.
MarkerValue(file) == IF file = <<>> THEN -1 ELSE file[1]

\* The step is the call of Pre by process p; Verdict is what it logs.
PreStep(p) == pc[p] = "pre" /\ pc'[p] # "pre"
Verdict(p) == trace'[p][Len(trace[p]) + 1]

\* ------------------------------------------------------------- C1
\* C1: over any sequence of Enable invocations the managed script of a
\* configuration version is spawned at most once, and Pre lets a version
\* proceed to Invoke only if no marker exists or the version is strictly
\* greater than the persisted marker.
C1_AtMostOncePerVersion ==
    /\ [](\A v \in Versions : Spawned(v) <= 1)
    /\ [][\A p \in Procs : (PreStep(p) /\ pc'[p] = "invoke")
             => (mrseq = <<>> \/ seq[p] > mrseq[1])]_vars

\* Two invocations of the same version: one spawned its script, the other
\* was stopped by Pre.
C1_Witness ==
    \E p \in Enables, q \in Enables :
        /\ p # q
        /\ seq[p] = seq[q]
        /\ Did(p, "spawn")
        /\ pc[q] = "done"
        /\ Did(q, "pre_skip")

\* ------------------------------------------------------------- C2
\* C2: a call of checkAndSaveSeqNum that gives a verdict: with no marker the
\* candidate is accepted and saved; with candidate <= persisted the verdict
\* is "already processed" and the marker is unchanged; otherwise the marker
\* is overwritten with the candidate and the verdict is "proceed".  A call
\* that fails to read or to write the marker returns an error, no verdict.
C2_CheckAndSave ==
    [][\A p \in Procs : (PreStep(p) /\ Verdict(p) # "pre_failed") =>
          IF mrseq = <<>> \/ seq[p] > MarkerValue(mrseq)
          THEN Verdict(p) = "pre_ok" /\ mrseq' = <<seq[p]>>
          ELSE Verdict(p) = "pre_skip" /\ mrseq' = mrseq]_vars

\* The boundary case: a candidate equal to the persisted number was rejected,
\* after a candidate had been accepted with no marker.
C2_Witness ==
    \E p \in Enables, q \in Enables :
        /\ Did(p, "pre_skip")
        /\ Did(q, "pre_ok")
        /\ mrseq = <<seq[p]>>
        /\ seq[q] = seq[p]

\* ------------------------------------------------------------- C3
\* C3: the persisted marker never decreases, and a check of v1 after a check
\* of some v2 >= v1 is "already processed" and leaves the marker where it
\* was, at the highest version checked so far.
C3_MarkerMonotone ==
    [][/\ MarkerValue(mrseq') >= MarkerValue(mrseq)
       /\ \A p \in Procs :
            (PreStep(p) /\ \E v2 \in Checked : seq[p] <= v2) =>
                /\ Verdict(p) \in {"pre_skip", "pre_failed"}
                /\ mrseq' = mrseq
                /\ mrseq = <<Max(Checked)>>]_vars

\* A lower version was checked after a higher one and rejected; the marker is
\* at the higher one.
C3_Witness ==
    \E p \in Enables, q \in Enables :
        /\ seq[p] < seq[q]
        /\ Did(q, "pre_ok")
        /\ Did(p, "pre_skip")
        /\ mrseq = <<seq[q]>>

\* ------------------------------------------------------------- C4
\* C4: when Pre finds the version already processed, the command runs
\* Cleanup next and ends with an error: no step of Invoke (settings,
\* download, goroutine, spawn) is taken and no status is reported as success.
C4_SkipGoesToCleanup ==
    \A p \in Procs :
        Did(p, "pre_skip") =>
            /\ trace[p] = <<"pre_skip", "cleanup">>
            /\ pc[p] = "done"
            /\ runErr[p] # ""
            /\ exitCode[p] # "ExitCode_Okay"

C4_Witness ==
    \E p \in Enables :
        /\ pc[p] = "done"
        /\ trace[p] = <<"pre_skip", "cleanup">>
        /\ runErr[p] # ""

\* ------------------------------------------------------------- C5
\* C5: for any interleaving of Enable invocations, no two managed scripts are
\* alive at the same time.
C5_OneScriptAlive == Cardinality({p \in Procs : ScriptAlive(p)}) <= 1

\* ------------------------------------------------------------- C6
\* C6: once runCmd has written the marker and returned, whatever the outcome
\* of the script (success, failure, not spawned), the marker of that process
\* is gone: the return of runCmd leaves no marker, and no marker naming the
\* process exists while the rest of enable runs or after it has completed.
C6_MarkerRemoved ==
    /\ [](\A p \in Procs :
            (Did(p, "savepid") /\ pc[p] \in {"send", "final", "done"}) => pidFile # <<p>>)
    /\ [][\A p \in Procs : (pc[p] = "defer" /\ pc'[p] = "send") => pidFile' = <<>>]_vars

\* An Enable whose script could not be spawned has completed, and there is no
\* marker.
C6_Witness ==
    \E p \in Enables :
        /\ pc[p] = "done"
        /\ Did(p, "savepid")
        /\ Did(p, "spawn_failed")
        /\ pidFile = <<>>

\* ------------------------------------------------------------- C7
\* C7: in every Enable that spawns a script the supervision steps are, in
\* this order, KillPreviousExtension, SaveCurrentPidAndStartTime, the spawn,
\* DeleteCurrentPidAndStartTime; the marker is written by the step right
\* before the spawn and by no step after it.
IsSupervision(ev) == ev \in {"kill", "savepid", "spawn", "spawn_failed", "delpid"}
Supervision(p) == SelectSeq(trace[p], IsSupervision)

C7_SupervisionOrder ==
    \A p \in Procs :
        Did(p, "spawn") =>
            /\ Supervision(p) \in {<<"kill", "savepid", "spawn">>,
                                   <<"kill", "savepid", "spawn", "delpid">>}
            /\ \E i \in 1..(Len(trace[p]) - 1) :
                   trace[p][i] = "savepid" /\ trace[p][i + 1] = "spawn"
            /\ pc[p] \in {"send", "final", "done"} =>
                   Supervision(p) = <<"kill", "savepid", "spawn", "delpid">>

C7_Witness ==
    \E p \in Enables :
        /\ pc[p] = "done"
        /\ Supervision(p) = <<"kill", "savepid", "spawn", "delpid">>

\* ------------------------------------------------------------- C8
\* C8: KillPreviousExtension is the first step of every Disable: a Disable
\* that has ended, with or without an error, began with it.
C8_DisableKillsFirst ==
    \A p \in Disables : pc[p] = "done" => (trace[p] # <<>> /\ trace[p][1] = "kill")

\* ------------------------------------------------------------- C9
\* C9: once the stop signal has been delivered the goroutine has returned:
\* it is returned during the final pass of the main path and afterwards, and
\* it takes no step (no tail, no report, no append) after the delivery.
C9_DrainBarrier ==
    /\ [](\A p \in Procs : Did(p, "stop") => (pc[p] \in {"final", "done"} /\ gpc[p] = "returned"))
    /\ [][\A p \in Procs : Did(p, "stop") => gpc'[p] = gpc[p]]_vars

\* The main path is in its final pass and the goroutine has returned.
C9_Witness ==
    \E p \in Enables : pc[p] = "final" /\ Did(p, "stop") /\ gpc[p] = "returned"

\* ------------------------------------------------------------- C10
\* C10: once the script has exited (ExecCmdInDir has returned), the goroutine
\* eventually returns and enable eventually returns, unless the process is
\* terminated meanwhile; and the stop signal is the step of the main path
\* next after the return of runCmd.
AfterExec(p) == pc[p] = "defer"
Ended(p) == (pc[p] = "done" /\ gpc[p] = "returned") \/ pc[p] = "dead"

C10_EnableReturns ==
    /\ \A p \in Procs : AfterExec(p) ~> Ended(p)
    /\ [](\A p \in Procs : (Did(p, "stop") /\ Did(p, "delpid")) =>
            \E i \in 1..(Len(trace[p]) - 1) :
                trace[p][i] = "delpid" /\ trace[p][i + 1] = "stop")

\* A script has exited, the goroutine has returned and enable has returned.
C10_Witness ==
    \E p \in Enables :
        /\ Did(p, "script_exit")
        /\ pc[p] = "done"
        /\ gpc[p] = "returned"
        /\ Did(p, "status_success")

\* ============================================================= download.WithRetries
\* Number of downloaders in the list given to WithRetries.
MaxDownloaders == 2

\* expRetryN: how many times the Download of one downloader is tried.
expRetryN == 3
\* expRetryK: the first sleep, in seconds.
expRetryK == 3
\* expRetryM: the factor between a sleep and the next.
expRetryM == 2

\* http.StatusOK.
StatusOK == 200
\* The status Download returns when there was no http request: GetRequest
\* failed, or the request failed in transport.
NoRequest == -1

isTransientHttpStatusCode(statusCode) == statusCode \in {408, 429, 500, 502, 503, 504}

isAccessIssueHttpStatusCode(statusCode) == statusCode \in {401, 403, 404, 409}

\* The answers a downloader gives that are not success: the access-issue and
\* the transient statuses, 400 (neither), and no request at all.
FailCodes == {401, 403, 404, 409, 408, 429, 500, 502, 503, 504, 400, NoRequest}

\* A downloader with its server, as the tests build them: it answers `code`
\* on its first `heal` calls and 200 afterwards (httpbin /status/<code> never
\* heals within the retries; healingServer heals; badDownloader fails in
\* GetRequest every time).
Strategies ==
    {[code |-> c, heal |-> k] : c \in FailCodes, k \in 1..expRetryN}
        \cup {[code |-> StatusOK, heal |-> 0]}

\* The status of call number j (from 1) on downloader s.
Answer(s, j) == IF j <= s.heal THEN s.code ELSE StatusOK

\* The error message of a failing GetRequest (badDownloader).
GetRequestError == "expected error"

\* download.Download(ctx, d) for a call that fails with `status`: the error it
\* returns.  A failing GetRequest is wrapped, keeping the downloader's message.
DownloadError(status) ==
    IF status = NoRequest
    THEN [status |-> status, wrap |-> "failed to create http request", msg |-> GetRequestError]
    ELSE [status |-> status, wrap |-> "download failed", msg |-> "bad status"]

\* int(math.Pow(float64(b), float64(e))).
RECURSIVE Pow(_, _)
Pow(b, e) == IF e = 0 THEN 1 ELSE b * Pow(b, e - 1)

\* Variant of Backoff: the same sleep before every retry.
BackoffConstant(m) == expRetryK

\* slp := expRetryK * time.Duration(int(math.Pow(expRetryM, n))), in seconds.
Backoff(m) == expRetryK * Pow(expRetryM, m)

\* Variant of Decide: every failure is retried like a transient one.
DecideRetryAll(status, m) ==
    IF status = StatusOK THEN "return"
    ELSE IF m # expRetryN - 1 THEN "sleep"
    ELSE "continue"

\* Variant of Decide: it sleeps after the last attempt as well.
DecideSleepAlways(status, m) ==
    IF status = StatusOK THEN "return"
    ELSE IF isAccessIssueHttpStatusCode(status) THEN "break"
    ELSE IF status # NoRequest /\ ~isTransientHttpStatusCode(status) THEN "break"
    ELSE "sleep"

\* Variant of Decide: a Download without an http request abandons the
\* downloader.
DecideFatalNoRequest(status, m) ==
    IF status = StatusOK THEN "return"
    ELSE IF isAccessIssueHttpStatusCode(status) THEN "break"
    ELSE IF ~isTransientHttpStatusCode(status) THEN "break"
    ELSE IF m # expRetryN - 1 THEN "sleep"
    ELSE "continue"

\* Variant of Decide: status 400 is retried.
DecideRetry400(status, m) ==
    IF status = StatusOK THEN "return"
    ELSE IF isAccessIssueHttpStatusCode(status) THEN "break"
    ELSE IF status \notin {NoRequest, 400} /\ ~isTransientHttpStatusCode(status) THEN "break"
    ELSE IF m # expRetryN - 1 THEN "sleep"
    ELSE "continue"

\* The body of the inner loop after Download returned `status` in iteration
\* n = m: "return" (err == nil), "break" (access issue, or a status that is
\* neither -1 nor transient), "sleep" (more retries to go), "continue" (the
\* last iteration: no sleep).
Decide(status, m) ==
    IF status = StatusOK THEN "return"
    ELSE IF isAccessIssueHttpStatusCode(status) THEN "break"
    ELSE IF status # NoRequest /\ ~isTransientHttpStatusCode(status) THEN "break"
    ELSE IF m # expRetryN - 1 THEN "sleep"
    ELSE "continue"

\* The loops' control after the body of iteration n = m on downloader i:
\* with inner = TRUE the inner loop goes on (n++ and its test n < expRetryN),
\* with inner = FALSE it was left by break.  When the downloaders are used up
\* WithRetries returns nil, downloadErrors.
LoopNext(i, m, inner) ==
    IF inner /\ m + 1 < expRetryN
    THEN [dIdx |-> i, n |-> m + 1, rpc |-> "attempt", out |-> "none"]
    ELSE IF i < Len(downloaders)
         THEN [dIdx |-> i + 1, n |-> 0, rpc |-> "attempt", out |-> "none"]
         ELSE [dIdx |-> i, n |-> m, rpc |-> "returned", out |-> "nil"]

\* Variant of WrapError: only the last error is kept.
WrapErrorLast(errs, m, err) == <<[attempt |-> 0, err |-> err]>>

\* downloadErrors after the error err of iteration n = m: the first error as
\* it is, a later one wrapped around what was there ("Attempt <n+1>: <err>").
WrapError(errs, m, err) ==
    IF errs # <<>>
    THEN <<[attempt |-> m + 1, err |-> err]>> \o errs
    ELSE <<[attempt |-> 0, err |-> err]>>

\* WithRetries is called with a list of downloaders.
RetryInit ==
    /\ HandlerInit
    /\ AppendIdle
    /\ StatusIdle
    /\ downloaders \in UNION {[1..l -> Strategies] : l \in 0..MaxDownloaders}
    /\ dIdx = 0
    /\ n = 0
    /\ rpc = "call"
    /\ timesCalled = [i \in 1..Len(downloaders) |-> 0]
    /\ sleeps = <<>>
    /\ downloadErrors = <<>>
    /\ out = "none"
    /\ openBodies = 0
    /\ closedBodies = 0
    /\ source = BothSources

\* Entry of "for _, d := range downloaders".
RetryCall ==
    /\ rpc = "call"
    /\ IF Len(downloaders) = 0
       THEN rpc' = "returned" /\ out' = "nil" /\ dIdx' = dIdx
       ELSE rpc' = "attempt" /\ out' = out /\ dIdx' = 1
    /\ UNCHANGED <<downloaders, n, timesCalled, sleeps, downloadErrors>>
    /\ UNCHANGED <<openBodies, closedBodies, source>>
    /\ UNCHANGED <<hvars, avars, svars>>

\* Whether Download hands out a response body together with `status`: always
\* with 200, never without an http request, and with or without one when the
\* response has a failing status.
Bodies(status) ==
    IF status = StatusOK THEN {TRUE}
    ELSE IF status = NoRequest THEN {FALSE}
    ELSE BOOLEAN

\* Variant of CloseBody: the body of a failed attempt is left open.
CloseBodyNever(hasBody) ==
    [open |-> IF hasBody THEN 1 ELSE 0, closed |-> 0]

\* "if out != nil { out.Close() }" after a failed Download: how many bodies
\* it leaves open and how many it has closed.
CloseBody(hasBody) ==
    [open |-> 0, closed |-> IF hasBody THEN 1 ELSE 0]

\* One iteration of the inner loop up to the sleep: Download (which calls
\* GetRequest once), the accumulation of the error, the closing of the
\* response body, the breaks.  hasBody: Download handed out a body.
RetryAttempt(hasBody) ==
    /\ rpc = "attempt"
    /\ hasBody \in Bodies(Answer(downloaders[dIdx], timesCalled[dIdx] + 1))
    /\ LET status == Answer(downloaders[dIdx], timesCalled[dIdx] + 1)
           dec == Decide(status, n)
           nxt == LoopNext(dIdx, n, dec = "continue")
       IN  /\ timesCalled' = [timesCalled EXCEPT ![dIdx] = @ + 1]
           /\ downloadErrors' = IF dec = "return" THEN downloadErrors
                                ELSE WrapError(downloadErrors, n, DownloadError(status))
           /\ openBodies' = IF dec = "return" THEN openBodies
                            ELSE openBodies + CloseBody(hasBody).open
           /\ closedBodies' = IF dec = "return" THEN closedBodies
                              ELSE closedBodies + CloseBody(hasBody).closed
           /\ IF dec = "return"
              THEN rpc' = "returned" /\ out' = "body" /\ UNCHANGED <<dIdx, n>>
              ELSE IF dec = "sleep"
                   THEN rpc' = "sleep" /\ UNCHANGED <<dIdx, n, out>>
                   ELSE /\ rpc' = nxt.rpc
                        /\ out' = nxt.out
                        /\ dIdx' = nxt.dIdx
                        /\ n' = nxt.n
    /\ UNCHANGED <<downloaders, sleeps, source>>
    /\ UNCHANGED <<hvars, avars, svars>>

\* sf(slp), then n++ and the test of the inner loop.
RetrySleep ==
    /\ rpc = "sleep"
    /\ sleeps' = Append(sleeps, Backoff(n))
    /\ LET nxt == LoopNext(dIdx, n, TRUE)
       IN  /\ rpc' = nxt.rpc
           /\ out' = nxt.out
           /\ dIdx' = nxt.dIdx
           /\ n' = nxt.n
    /\ UNCHANGED <<downloaders, timesCalled, downloadErrors>>
    /\ UNCHANGED <<openBodies, closedBodies, source>>
    /\ UNCHANGED <<hvars, avars, svars>>

RetryNext ==
    \/ RetryCall
    \/ \E hasBody \in BOOLEAN : RetryAttempt(hasBody)
    \/ RetrySleep

RetrySpec == RetryInit /\ [][RetryNext]_vars

\* Download and the sleep function return: a call of WithRetries that can
\* take a step takes one.
RetryFairSpec == RetrySpec /\ WF_vars(RetryNext)

\* ============================================================= the messages of Download
\* The message Download gives when no case of its own applies.
DefaultMessage == "Use either a public script URI that points to .sh file"

\* The part of the message that names the cause, for any downloader.
CommonMessage(code) ==
    CASE code = 404 -> "because it does not exist"
      [] code = 403 -> "Please verify the machine has network connectivity"
      [] code = 500 -> "due to an issue with storage"
      [] code = 400 -> "because parts of the request were incorrectly formatted, missing, and/or invalid"
      [] code = 401 -> "because access was denied"
      [] OTHER -> DefaultMessage

\* Variant of DownloadMessage: the kind of downloader makes no difference.
DownloadMessageAnyKind(kind, code) == CommonMessage(code)

\* The message of a Download that got the failing status `code` from the
\* server, by the kind of downloader (NewURLDownload: "url",
\* NewBlobWithMsiDownload: "msi").  With a managed identity 404 and 403 have
\* messages of their own, 400, 401 and 409 have one that is not the default,
\* and every other code has the default message.
DownloadMessage(kind, code) ==
    IF kind = "msi"
    THEN CASE code = 404 -> "MsiDownload404ErrorString"
           [] code = 403 -> "MsiDownload403ErrorString"
           [] code \in {400, 401, 409} -> "managed identity: not the default message"
           [] OTHER -> DefaultMessage
    ELSE CommonMessage(code)

\* download.Download(ctx, d) against a server that answers d.code: the
\* status, whether a body is returned, and the message of the error ("" is
\* nil).
Download(d) ==
    IF d.code = StatusOK THEN [status |-> d.code, body |-> TRUE, msg |-> ""]
    ELSE [status |-> d.code, body |-> FALSE, msg |-> DownloadMessage(d.kind, d.code)]

\* The downloaders of the tests: a URL or a managed-identity downloader whose
\* server answers /status/<code>.
TypedDownloaders ==
    {[kind |-> k, code |-> c] : k \in {"url", "msi"},
                               c \in {StatusOK, 404, 403, 500, 502, 400, 401, 409}}

\* Download is called on each downloader of a list, one after another; the
\* results are kept in downloadErrors.
MessageInit ==
    /\ HandlerInit
    /\ AppendIdle
    /\ StatusIdle
    /\ downloaders \in UNION {[1..l -> TypedDownloaders] : l \in 1..MaxDownloaders}
    /\ dIdx = 0
    /\ n = 0
    /\ rpc = "direct"
    /\ timesCalled = <<>>
    /\ sleeps = <<>>
    /\ downloadErrors = <<>>
    /\ out = "none"
    /\ openBodies = 0
    /\ closedBodies = 0
    /\ source = BothSources

DownloadOnce ==
    /\ rpc = "direct"
    /\ dIdx < Len(downloaders)
    /\ dIdx' = dIdx + 1
    /\ downloadErrors' = Append(downloadErrors, Download(downloaders[dIdx + 1]))
    /\ UNCHANGED <<downloaders, n, rpc, timesCalled, sleeps, out, openBodies,
                   closedBodies, source>>
    /\ UNCHANGED <<hvars, avars, svars>>

MessageNext == DownloadOnce

MessageSpec == MessageInit /\ [][MessageNext]_vars

\* ============================================================= enable with its download
\* Downloaders that answer the same on every call of the retries: 200, or a
\* failing status every time, taken from each class WithRetries tells apart
\* (access issue: 403, 404; transient: 500; other: 400; no request).
SteadyStrategies ==
    {d \in Strategies :
        /\ d.heal \in {0, expRetryN}
        /\ d.code \in {StatusOK, 403, 404, 500, 400, NoRequest}}

\* One enable whose settings name a script URI, served by a list of steady
\* downloaders, and blobs for the output.
EnableInit ==
    /\ HandlerInit
    /\ StatusIdle
    /\ blobCfg \in [Streams -> BlobCfgs]
    /\ asyncExecution = FALSE
    /\ credTried = [s \in Streams |-> <<>>]
    /\ sink = [s \in Streams |-> NoSink]
    /\ fileLen = [p \in Procs |-> [s \in Streams |-> 0]]
    /\ cursor = [p \in Procs |-> [s \in Streams |-> 0]]
    /\ blob = [p \in Procs |-> [s \in Streams |-> <<>>]]
    /\ tail = [p \in Procs |-> [s \in Streams |-> 0]]
    /\ appendErr = [p \in Procs |-> [s \in Streams |-> ""]]
    /\ downloaders \in UNION {[1..l -> SteadyStrategies] : l \in 1..MaxDownloaders}
    /\ dIdx = 0
    /\ n = 0
    /\ rpc = "call"
    /\ timesCalled = [i \in 1..Len(downloaders) |-> 0]
    /\ sleeps = <<>>
    /\ downloadErrors = <<>>
    /\ out = "none"
    /\ openBodies = 0
    /\ closedBodies = 0
    /\ source = BothSources

\* downloadScript: enable, past its settings, has the script downloaded with
\* the list of downloaders.
DownloadScript(p) ==
    /\ pc[p] = "invoke"
    /\ cmd[p] = "enable"
    /\ RetryCall

EnableNext ==
    \/ \E c \in Commands : Start(1, c, 0)
    \/ Main(1)
    \/ Go(1)
    \/ \E ok \in BOOLEAN : ScriptExit(1, ok)
    \/ Crash(1)
    \/ DownloadScript(1)
    \/ \E hasBody \in BOOLEAN : RetryAttempt(hasBody)
    \/ RetrySleep

EnableSpec == EnableInit /\ [][EnableNext]_vars

\* ============================================================= the five Invoke functions
\* The commands of the registry.
AllCommands == {"install", "enable", "disable", "update", "uninstall"}

\* The exit codes the Invoke functions return: the constants named in their
\* return statements, and those of immediatecmds.* and exec.ExecCmdInDir,
\* which they pass on.  ExitCode_Okay is zero, every other one is not.
Taxonomy ==
    {"ExitCode_Okay", "ExitCode_GetHandlerSettingsFailed",
     "ExitCode_ScriptBlobDownloadFailed", "ExitCode_DownloadArtifactFailed",
     "ExitCode_BlobCreateOrReplaceFailed", "ExitCode_SaveScriptFailed",
     "ExitCode_CreateDataDirectoryFailed", "ExitCode_RemoveDataDirectoryFailed",
     "ExitCode_ImmediateInstallFailed", "ExitCode_ImmediateEnableFailed",
     "ExitCode_ImmediateDisableFailed", "ExitCode_ImmediateUpdateFailed",
     "ExitCode_ImmediateUninstallFailed", "ExitCode_ScriptFailed"}

\* What immediatecmds.Install / Update / Uninstall return for command c: nil
\* and zero, or an error with the exit code of that function.
ImmediateResults(c) ==
    {[err |-> "", code |-> "ExitCode_Okay"],
     [err |-> "immediate failed",
      code |-> CASE c = "install" -> "ExitCode_ImmediateInstallFailed"
                 [] c = "update" -> "ExitCode_ImmediateUpdateFailed"
                 [] OTHER -> "ExitCode_ImmediateUninstallFailed"]}

\* Variant of install: the error of os.MkdirAll is returned with
\* ExitCode_Okay.
installOkayOnError(r, fsOk) ==
    IF r.err # "" THEN [err |-> r.err, code |-> r.code]
    ELSE IF ~fsOk THEN [err |-> "failed to create data dir", code |-> "ExitCode_Okay"]
    ELSE [err |-> "", code |-> "ExitCode_Okay"]

\* install, given the result r of immediatecmds.Install and whether
\* os.MkdirAll(constants.DataDir) succeeds: the error and exit code returned.
install(r, fsOk) ==
    IF r.err # "" THEN [err |-> r.err, code |-> r.code]
    ELSE IF ~fsOk
    THEN [err |-> "failed to create data dir", code |-> "ExitCode_CreateDataDirectoryFailed"]
    ELSE [err |-> "", code |-> "ExitCode_Okay"]

\* update, given the result r of immediatecmds.Update.
update(r) ==
    IF r.err # "" THEN [err |-> r.err, code |-> r.code]
    ELSE [err |-> "", code |-> "ExitCode_Okay"]

\* uninstall, given the result r of immediatecmds.Uninstall and whether
\* os.RemoveAll(constants.DataDir) succeeds.
uninstall(r, fsOk) ==
    IF r.err # "" THEN [err |-> r.err, code |-> r.code]
    ELSE IF ~fsOk
    THEN [err |-> "failed to delete data directory",
          code |-> "ExitCode_RemoveDataDirectoryFailed"]
    ELSE [err |-> "", code |-> "ExitCode_Okay"]

\* Variant of DataDirAfter: update removes the data directory as uninstall
\* does.
DataDirAfterUpdateRemoves(c, r, fsOk) ==
    IF r.err # "" THEN {dataDir}
    ELSE IF c = "install" THEN (IF fsOk /\ dataDir = "absent" THEN {"empty"} ELSE {dataDir})
    ELSE IF fsOk THEN {"absent"}
    ELSE IF dataDir = "files" THEN {"files", "empty"} ELSE {dataDir}

\* The data directory after the Invoke function of command c, given the
\* result r of its immediatecmds call: install runs os.MkdirAll, which
\* creates the directory when it is absent; uninstall runs os.RemoveAll,
\* which removes it with all it holds, and on an error may have removed a
\* part; update touches nothing.
DataDirAfter(c, r, fsOk) ==
    IF r.err # "" THEN {dataDir}
    ELSE IF c = "install" THEN (IF fsOk /\ dataDir = "absent" THEN {"empty"} ELSE {dataDir})
    ELSE IF c = "uninstall"
    THEN IF fsOk THEN {"absent"}
         ELSE IF dataDir = "files" THEN {"files", "empty"} ELSE {dataDir}
    ELSE {dataDir}

\* The dispatcher calls the Invoke function of install, update or uninstall;
\* the function returns, and the dispatcher reports the outcome.
InvokeImmediate(p, r, fsOk) ==
    /\ pc[p] = "invoke"
    /\ cmd[p] \in {"install", "update", "uninstall"}
    /\ r \in ImmediateResults(cmd[p])
    /\ LET o == CASE cmd[p] = "install" -> install(r, fsOk)
                  [] cmd[p] = "update" -> update(r)
                  [] OTHER -> uninstall(r, fsOk)
       IN  /\ runErr' = [runErr EXCEPT ![p] = o.err]
           /\ exitCode' = [exitCode EXCEPT ![p] = o.code]
           /\ trace' = [trace EXCEPT ![p] = @ \o <<cmd[p]>> \o ReportStatus(o.err)]
           /\ lastStatus' = [lastStatus EXCEPT ![p] = StatusKind(o.err)]
           /\ dataDir' \in DataDirAfter(cmd[p], r, fsOk)
    /\ pc' = [pc EXCEPT ![p] = "done"]
    /\ UNCHANGED <<cmd, seq, mrseq, pidFile, gpc, tickerOn, tick>>
    /\ UNCHANGED <<statusPath, inodes, spc, calls, tmpFile, fd, observed,
                   shouldReportStatus, requests, returns>>
    /\ UNCHANGED <<rvars, avars>>

\* One handler invocation with any of the five commands; the settings of an
\* enable name blobs with every outcome of their credentials.
InvokeInit ==
    /\ HandlerInit
    /\ RetryIdle
    /\ StatusIdle
    /\ blobCfg \in [Streams -> BlobCfgs]
    /\ asyncExecution = FALSE
    /\ credTried = [s \in Streams |-> <<>>]
    /\ sink = [s \in Streams |-> NoSink]
    /\ fileLen = [p \in Procs |-> [s \in Streams |-> 0]]
    /\ cursor = [p \in Procs |-> [s \in Streams |-> 0]]
    /\ blob = [p \in Procs |-> [s \in Streams |-> <<>>]]
    /\ tail = [p \in Procs |-> [s \in Streams |-> 0]]
    /\ appendErr = [p \in Procs |-> [s \in Streams |-> ""]]

InvokeNext ==
    \/ \E c \in AllCommands : Start(1, c, 0)
    \/ Main(1)
    \/ Go(1)
    \/ \E ok \in BOOLEAN : ScriptExit(1, ok)
    \/ Crash(1)
    \/ \E r \in UNION {ImmediateResults(c) : c \in AllCommands}, fsOk \in BOOLEAN :
          InvokeImmediate(1, r, fsOk)

InvokeSpec == InvokeInit /\ [][InvokeNext]_vars

\* ------------------------------------------------------------- lifecycle
\* Handler invocations of any of the five commands, one after or next to
\* another, with the data directory absent, empty or holding downloads.
LifecycleInit ==
    /\ HandlerInit
    /\ RetryIdle
    /\ AppendIdle
    /\ statusPath = 0
    /\ inodes = <<>>
    /\ spc = "none"
    /\ calls = 0
    /\ tmpFile = 0
    /\ fd = 0
    /\ observed = [kind |-> "nothing", doc |-> 0, len |-> 0]
    /\ shouldReportStatus = TRUE
    /\ requests = 0
    /\ returns = <<>>
    /\ dataDir \in {"absent", "empty", "files"}

LifecycleNext ==
    \/ \E p \in Procs, c \in AllCommands : Start(p, c, 0)
    \/ \E p \in Procs : Main(p)
    \/ \E p \in Procs : Go(p)
    \/ \E p \in Procs, ok \in BOOLEAN : ScriptExit(p, ok)
    \/ \E p \in Procs : Crash(p)
    \/ \E p \in Procs, r \in UNION {ImmediateResults(c) : c \in AllCommands},
          fsOk \in BOOLEAN : InvokeImmediate(p, r, fsOk)

LifecycleSpec == LifecycleInit /\ [][LifecycleNext]_vars

\* ------------------------------------------------------------- the script source
\* downloadScript(ctx, dir, cfg): the script file path and the error it
\* returns.  The output directory is made (mkdirOk); the script is downloaded
\* only when cfg.ScriptURI() is not empty (dlOk: the download succeeds);
\* without a URI it returns "" and nil.
downloadScript(src, mkdirOk, dlOk) ==
    IF ~mkdirOk THEN [path |-> "", err |-> "failed to prepare output directory"]
    ELSE IF src.uri
    THEN IF dlOk THEN [path |-> "downloaded", err |-> ""]
         ELSE [path |-> "", err |-> "failed to download file"]
    ELSE [path |-> "", err |-> ""]

\* runCmd: the file it hands to exec.ExecCmdInDir.  An inline script is saved
\* to <dir>/script.sh and that file is run; else the path downloadScript gave.
ScriptFile(src, scriptFilePath) ==
    IF src.script THEN "script.sh" ELSE scriptFilePath

\* The file the managed script of this enable is run from.
ExecutedFile == ScriptFile(source, downloadScript(source, TRUE, TRUE).path)

\* enable with the script source in view: the script stage fails exactly
\* when downloadScript returns an error.
SourceEnable(p, failed) ==
    /\ \E mkdirOk \in BOOLEAN, dlOk \in BOOLEAN :
          LET d == downloadScript(source, mkdirOk, dlOk)
          IN  CASE failed \in {"settings", "immediate"} -> TRUE
                [] failed = "script" -> d.err # ""
                [] OTHER -> d.err = ""
    /\ enable(p, failed)

\* runCmd with the script source in view: files.SaveScriptFile is called, and
\* can fail, only for an inline script.
SourceRunCmdKill(p, saveOk, buffered) ==
    /\ IF source.script THEN TRUE ELSE saveOk
    /\ RunCmdKill(p, saveOk, buffered)

\* One enable, its settings with or without an inline script and a URI.
SourceInit ==
    /\ HandlerInit
    /\ AppendIdle
    /\ StatusIdle
    /\ downloaders = <<>>
    /\ dIdx = 0
    /\ n = 0
    /\ rpc = "none"
    /\ timesCalled = <<>>
    /\ sleeps = <<>>
    /\ downloadErrors = <<>>
    /\ out = "none"
    /\ openBodies = 0
    /\ closedBodies = 0
    /\ source \in [script : BOOLEAN, uri : BOOLEAN]

SourceNext ==
    \/ \E v \in Versions : Start(1, "enable", v)
    \/ Pre(1)
    \/ \E failed \in Stages \cup {"none"} : SourceEnable(1, failed)
    \/ \E saveOk \in BOOLEAN, buffered \in BOOLEAN : SourceRunCmdKill(1, saveOk, buffered)
    \/ RunCmdSavePid(1)
    \/ \E started \in BOOLEAN : RunCmdExec(1, started)
    \/ \E buffered \in BOOLEAN : RunCmdReturn(1, buffered)
    \/ SendDone(1)
    \/ \E res \in PassResults(1) : EnableFinal(1, res)
    \/ Go(1)
    \/ \E ok \in BOOLEAN : ScriptExit(1, ok)
    \/ Crash(1)

SourceSpec == SourceInit /\ [][SourceNext]_vars

\* ============================================================= properties of the output passes
\* Stream s has a sink: createOrReplaceAppendBlob returned a handle for it.
Configured(s) == sink[s].ref \/ sink[s].client

\* The step is an append pass of process p: the body of a tick in the
\* goroutine, or the final pass on the main path.
TickPass(p) == gpc[p] = "work" /\ gpc'[p] = "select"
FinalPass(p) == pc[p] = "final" /\ pc'[p] = "done"

\* enable has returned after running the script's supervision to its end.
Returned(p) == pc[p] = "done" /\ Did(p, "stop")

MainAway(p) == pc[p] \in {"runcmd", "savepid", "exec", "wait", "defer", "send"}
GoroutineLive(p) == gpc[p] \in {"select", "work"}

C14_SingleWriter ==
    /\ [](\A p \in Procs : GoroutineLive(p) => MainAway(p))
    /\ [][\A p \in Procs :
            (cursor'[p] # cursor[p] \/ tail'[p] # tail[p] \/ appendErr'[p] # appendErr[p]) =>
                \/ TickPass(p) /\ pc'[p] = pc[p] /\ MainAway(p)
                \/ pc'[p] # pc[p] /\ ~GoroutineLive(p) /\ gpc'[p] = gpc[p]]_vars

\* The script is running and the goroutine has advanced a cursor.
C14_Witness ==
    \E p \in Enables :
        /\ pc[p] = "wait"
        /\ gpc[p] = "select"
        /\ cursor[p]["stdout"] > 0

\* ============================================================= saveStatusReport
\* Number of calls of saveStatusReport (documents written, one after another).
MaxDocs == 2
\* os.WriteFile writes a document in DocLen pieces; a document that has fewer
\* is truncated and does not parse.
DocLen == 2

\* The status folder of one configuration version: the final path
\* <statusFolder>/[<extName>.]<seqNum>.status names an inode or nothing; a
\* temporary file is an inode under a name of its own.  A reader opens the
\* final path and reads the inode it got.
StatusInit ==
    /\ HandlerInit
    /\ RetryIdle
    /\ AppendIdle
    /\ statusPath = 0
    /\ inodes = <<>>
    /\ spc = "idle"
    /\ calls = 0
    /\ tmpFile = 0
    /\ fd = 0
    /\ observed = [kind |-> "nothing", doc |-> 0, len |-> 0]
    /\ shouldReportStatus = TRUE
    /\ requests = 0
    /\ returns = <<>>
    /\ dataDir = "empty"

\* A call of fn returns err to its caller.
Return(fn, err) == Append(returns, [fn |-> fn, err |-> err])

\* saveStatusReport is called with the next document.
SaveStatusReport ==
    /\ spc = "idle"
    /\ calls < MaxDocs
    /\ calls' = calls + 1
    /\ spc' = "create"
    /\ UNCHANGED <<statusPath, inodes, tmpFile, fd, observed>>
    /\ UNCHANGED <<shouldReportStatus, requests, returns>>
    /\ UNCHANGED dataDir
    /\ UNCHANGED <<hvars, rvars, avars>>

\* Variant of CreateTemp: the file the document is written to is the final
\* path itself, created or truncated.
CreateTempAtPath(ok) ==
    /\ spc = "create"
    /\ IF ok
       THEN /\ IF statusPath = 0
               THEN /\ inodes' = Append(inodes, [doc |-> calls, len |-> 0])
                    /\ statusPath' = Len(inodes) + 1
                    /\ tmpFile' = Len(inodes) + 1
               ELSE /\ inodes' = [inodes EXCEPT ![statusPath] = [doc |-> calls, len |-> 0]]
                    /\ statusPath' = statusPath
                    /\ tmpFile' = statusPath
            /\ spc' = "write"
            /\ UNCHANGED returns
       ELSE /\ spc' = "idle"
            /\ returns' = Return("local", "failed to save handler status")
            /\ UNCHANGED <<statusPath, inodes, tmpFile>>
    /\ UNCHANGED <<calls, fd, observed, shouldReportStatus, requests>>
    /\ UNCHANGED dataDir
    /\ UNCHANGED <<hvars, rvars, avars>>

\* os.CreateTemp(statusFolder, fn), then tmpFile.Close(): a new empty file
\* under a fresh name in the same folder; on an error saveStatusReport returns.
CreateTemp(ok) ==
    /\ spc = "create"
    /\ IF ok
       THEN /\ inodes' = Append(inodes, [doc |-> calls, len |-> 0])
            /\ tmpFile' = Len(inodes) + 1
            /\ spc' = "write"
            /\ UNCHANGED returns
       ELSE /\ spc' = "idle"
            /\ returns' = Return("local", "failed to save handler status")
            /\ UNCHANGED <<inodes, tmpFile>>
    /\ UNCHANGED <<statusPath, calls, fd, observed, shouldReportStatus, requests>>
    /\ UNCHANGED dataDir
    /\ UNCHANGED <<hvars, rvars, avars>>

\* os.WriteFile(tmpFile.Name(), rootStatusJson, 0644): the next piece of the
\* document reaches the temporary file; on an error saveStatusReport returns
\* and the temporary file stays as it is.
WriteFile(ok) ==
    /\ spc = "write"
    /\ IF ok
       THEN /\ inodes' = [inodes EXCEPT ![tmpFile].len = @ + 1]
            /\ spc' = IF inodes[tmpFile].len + 1 = DocLen THEN "rename" ELSE "write"
            /\ tmpFile' = tmpFile
            /\ UNCHANGED returns
       ELSE /\ spc' = "idle"
            /\ tmpFile' = 0
            /\ inodes' = inodes
            /\ returns' = Return("local", "failed to save handler status")
    /\ UNCHANGED <<statusPath, calls, fd, observed, shouldReportStatus, requests>>
    /\ UNCHANGED dataDir
    /\ UNCHANGED <<hvars, rvars, avars>>

\* os.Rename(tmpFile.Name(), path): the final path names the inode of the
\* temporary file, in one step; on an error nothing changes.
Rename(ok) ==
    /\ spc = "rename"
    /\ statusPath' = IF ok THEN tmpFile ELSE statusPath
    /\ tmpFile' = 0
    /\ spc' = "idle"
    /\ returns' = Return("local", IF ok THEN "" ELSE "failed to save handler status")
    /\ UNCHANGED <<inodes, calls, fd, observed, shouldReportStatus, requests>>
    /\ UNCHANGED dataDir
    /\ UNCHANGED <<hvars, rvars, avars>>

\* A reader opens the final path.
ReaderOpen ==
    /\ fd = 0
    /\ IF statusPath = 0
       THEN /\ observed' = [kind |-> "no file", doc |-> 0, len |-> 0]
            /\ fd' = fd
       ELSE /\ fd' = statusPath
            /\ observed' = observed
    /\ UNCHANGED <<statusPath, inodes, spc, calls, tmpFile>>
    /\ UNCHANGED <<shouldReportStatus, requests, returns>>
    /\ UNCHANGED dataDir
    /\ UNCHANGED <<hvars, rvars, avars>>

\* The reader reads the file it opened, and closes it.
ReaderRead ==
    /\ fd # 0
    /\ observed' = [kind |-> "content", doc |-> inodes[fd].doc, len |-> inodes[fd].len]
    /\ fd' = 0
    /\ UNCHANGED <<statusPath, inodes, spc, calls, tmpFile>>
    /\ UNCHANGED <<shouldReportStatus, requests, returns>>
    /\ UNCHANGED dataDir
    /\ UNCHANGED <<hvars, rvars, avars>>

StatusNext ==
    \/ SaveStatusReport
    \/ \E ok \in BOOLEAN : CreateTemp(ok)
    \/ \E ok \in BOOLEAN : WriteFile(ok)
    \/ \E ok \in BOOLEAN : Rename(ok)
    \/ ReaderOpen
    \/ ReaderRead

StatusSpec == StatusInit /\ [][StatusNext]_vars

\* ------------------------------------------------------------- ReportStatus
\* Number of calls of ReportStatusToLocalFile and ReportStatusToBlob.
MaxReports == 2

\* A status file of an earlier report of this version may be in the folder
\* (document 0, complete); the command reports its status or not.
ReportInit ==
    /\ HandlerInit
    /\ RetryIdle
    /\ AppendIdle
    /\ shouldReportStatus \in BOOLEAN
    /\ \E before \in BOOLEAN :
          /\ inodes = IF before THEN <<[doc |-> 0, len |-> DocLen]>> ELSE <<>>
          /\ statusPath = IF before THEN 1 ELSE 0
    /\ spc = "idle"
    /\ calls = 0
    /\ tmpFile = 0
    /\ fd = 0
    /\ observed = [kind |-> "nothing", doc |-> 0, len |-> 0]
    /\ requests = 0
    /\ returns = <<>>
    /\ dataDir = "empty"

\* ReportStatusToLocalFile up to its call of saveStatusReport: nil at once
\* when the command does not report; the error of getRootStatusJson
\* (marshalOk = FALSE); else saveStatusReport is called with the document,
\* and its steps (CreateTemp, WriteFile, Rename) make the return.
ReportStatusToLocalFile(marshalOk) ==
    /\ spc = "idle"
    /\ Len(returns) < MaxReports
    /\ calls < MaxDocs
    /\ IF ~shouldReportStatus
         THEN /\ returns' = Return("local", "")
              /\ UNCHANGED <<spc, calls>>
         ELSE IF ~marshalOk
         THEN /\ returns' = Return("local", "failed to get json for status report")
              /\ UNCHANGED <<spc, calls>>
         ELSE /\ calls' = calls + 1
              /\ spc' = "create"
              /\ UNCHANGED returns
    /\ UNCHANGED <<statusPath, inodes, tmpFile, fd, observed, shouldReportStatus, requests>>
    /\ UNCHANGED dataDir
    /\ UNCHANGED <<hvars, rvars, avars>>

\* Variant of ReportStatusToBlob: a failed request is sent once more and its
\* error is dropped.
ReportStatusToBlobRetry(marshalOk, sendOk) ==
    /\ spc = "idle"
    /\ Len(returns) < MaxReports
    /\ IF ~shouldReportStatus
         THEN /\ returns' = Return("blob", "")
              /\ UNCHANGED requests
         ELSE IF ~marshalOk
         THEN /\ returns' = Return("blob", "failed to get json for status report")
              /\ UNCHANGED requests
         ELSE /\ requests' = requests + (IF sendOk THEN 1 ELSE 2)
              /\ returns' = Return("blob", "")
    /\ UNCHANGED <<statusPath, inodes, spc, calls, tmpFile, fd, observed, shouldReportStatus>>
    /\ UNCHANGED dataDir
    /\ UNCHANGED <<hvars, rvars, avars>>

\* Variant of ReportStatusToBlob: the flag of the command is not looked at.
ReportStatusToBlobUnguarded(marshalOk, sendOk) ==
    /\ spc = "idle"
    /\ Len(returns) < MaxReports
    /\ IF ~marshalOk
         THEN /\ returns' = Return("blob", "failed to get json for status report")
              /\ UNCHANGED requests
         ELSE /\ requests' = requests + 1
              /\ returns' = Return("blob", IF sendOk THEN ""
                                            ELSE "failed to report status to HGAP")
    /\ UNCHANGED <<statusPath, inodes, spc, calls, tmpFile, fd, observed, shouldReportStatus>>
    /\ UNCHANGED dataDir
    /\ UNCHANGED <<hvars, rvars, avars>>

\* ReportStatusToBlob: nil at once when the command does not report; the
\* error of getRootStatusJson; else one request to the endpoint
\* (reporter.ReportStatus), whose error is returned (sendOk = FALSE).
ReportStatusToBlob(marshalOk, sendOk) ==
    /\ spc = "idle"
    /\ Len(returns) < MaxReports
    /\ IF ~shouldReportStatus
         THEN /\ returns' = Return("blob", "")
              /\ UNCHANGED requests
         ELSE IF ~marshalOk
         THEN /\ returns' = Return("blob", "failed to get json for status report")
              /\ UNCHANGED requests
         ELSE /\ requests' = requests + 1
              /\ returns' = Return("blob", IF sendOk THEN ""
                                            ELSE "failed to report status to HGAP")
    /\ UNCHANGED <<statusPath, inodes, spc, calls, tmpFile, fd, observed, shouldReportStatus>>
    /\ UNCHANGED dataDir
    /\ UNCHANGED <<hvars, rvars, avars>>

ReportNext ==
    \/ \E marshalOk \in BOOLEAN : ReportStatusToLocalFile(marshalOk)
    \/ \E marshalOk \in BOOLEAN, sendOk \in BOOLEAN : ReportStatusToBlob(marshalOk, sendOk)
    \/ \E ok \in BOOLEAN : CreateTemp(ok)
    \/ \E ok \in BOOLEAN : WriteFile(ok)
    \/ \E ok \in BOOLEAN : Rename(ok)
    \/ ReaderOpen
    \/ ReaderRead

ReportSpec == ReportInit /\ [][ReportNext]_vars

\* ------------------------------------------------------------- C15
\* C15: whatever the interleaving of saveStatusReport and a reader of the
\* final path, the reader sees no file or a complete document, one that a
\* call of saveStatusReport wrote in full: the file at the final path, and
\* any file a reader got by opening it, holds a complete document.
Complete(content) == content.len = DocLen /\ content.doc \in 1..calls

C15_AtomicStatus ==
    /\ observed.kind \in {"nothing", "no file", "content"}
    /\ observed.kind = "content" => Complete(observed)
    /\ fd # 0 => Complete(inodes[fd])
    /\ statusPath # 0 => Complete(inodes[statusPath])

\* The reader has read the complete first document while the second one is
\* half written.
C15_Witness ==
    /\ observed.kind = "content"
    /\ observed.doc = 1
    /\ spc = "write"
    /\ calls = 2
    /\ inodes[tmpFile].len = 1

\* ============================================================= properties of WithRetries
\* The sleeps the tests expect: sleepSchedule, in seconds.
sleepSchedule == <<3, 6>>

\* WithRetries has returned.
RetryReturned == rpc = "returned"

\* The status the Download of the current iteration gets.
AttemptStatus == Answer(downloaders[dIdx], timesCalled[dIdx] + 1)

\* ------------------------------------------------------------- C16
\* The list has two downloaders, the first answers an access-issue status
\* and the second answers 200.
C16_Case ==
    /\ Len(downloaders) = 2
    /\ isAccessIssueHttpStatusCode(downloaders[1].code)
    /\ downloaders[2].code = StatusOK

C17_Case ==
    /\ Len(downloaders) = 1
    /\ \/ downloaders[1].code = StatusOK
       \/ /\ isTransientHttpStatusCode(downloaders[1].code)
          /\ downloaders[1].heal <= 2

C17_k == IF downloaders[1].code = StatusOK THEN 0 ELSE downloaders[1].heal

\* C17: such a downloader succeeds on call k + 1, and WithRetries has slept
\* exactly k times: the first k durations of 3s, 6s, in that order.
C17_HealingBackoff ==
    C17_Case =>
        /\ timesCalled[1] <= C17_k + 1
        /\ Len(sleeps) <= C17_k
        /\ sleeps = SubSeq(sleepSchedule, 1, Len(sleeps))
        /\ RetryReturned =>
              /\ out = "body"
              /\ timesCalled[1] = C17_k + 1
              /\ sleeps = SubSeq(sleepSchedule, 1, C17_k)

C17_Witness ==
    /\ C17_Case
    /\ downloaders[1] = [code |-> 429, heal |-> 2]
    /\ RetryReturned
    /\ out = "body"
    /\ timesCalled[1] = 3
    /\ sleeps = <<3, 6>>

\* ------------------------------------------------------------- C18
\* One downloader that answers a transient status on every call that the
\* retries make.
C18_Case ==
    /\ Len(downloaders) = 1
    /\ isTransientHttpStatusCode(downloaders[1].code)
    /\ downloaders[1].heal >= expRetryN

\* C18: such a downloader is called exactly 3 times; WithRetries sleeps 3s
\* then 6s, not after the last call, and returns nil with an error.
C18_RetryBudget ==
    C18_Case =>
        /\ timesCalled[1] <= 3
        /\ Len(sleeps) <= 2
        /\ rpc = "sleep" => n < expRetryN - 1
        /\ RetryReturned =>
              /\ timesCalled[1] = 3
              /\ sleeps = <<3, 6>>
              /\ out = "nil"
              /\ downloadErrors # <<>>

C18_Witness ==
    /\ C18_Case
    /\ downloaders[1].code = 429
    /\ RetryReturned
    /\ timesCalled[1] = 3
    /\ sleeps = <<3, 6>>
    /\ out = "nil"

\* ------------------------------------------------------------- C19
\* A status that is not success, not "no request", not an access issue and
\* not transient.
FatalStatus(status) ==
    /\ status \notin {StatusOK, NoRequest}
    /\ ~isAccessIssueHttpStatusCode(status)
    /\ ~isTransientHttpStatusCode(status)

\* C19: an attempt that gets such a status (400) is the only one on its
\* downloader: the step does not sleep, and it goes to the first attempt on
\* the next downloader, or returns the error when there is none.
C19_FatalStep ==
    (rpc = "attempt" /\ FatalStatus(AttemptStatus)) =>
        /\ timesCalled[dIdx] = 0
        /\ timesCalled'[dIdx] = 1
        /\ sleeps' = sleeps
        /\ rpc' # "sleep"
        /\ IF dIdx < Len(downloaders)
           THEN dIdx' = dIdx + 1 /\ n' = 0 /\ rpc' = "attempt"
           ELSE rpc' = "returned" /\ out' = "nil" /\ downloadErrors' # <<>>

C20_Case ==
    /\ Len(downloaders) = 1
    /\ downloaders[1].code = NoRequest
    /\ downloaders[1].heal >= expRetryN

\* C20: such a downloader is called exactly 3 times, and the error that
\* WithRetries returns holds the downloader's own message, in each of the
\* attempts' errors.
C20_BadDownloader ==
    C20_Case =>
        /\ timesCalled[1] <= 3
        /\ RetryReturned =>
              /\ timesCalled[1] = 3
              /\ out = "nil"
              /\ Len(downloadErrors) = 3
              /\ \A i \in 1..Len(downloadErrors) :
                    downloadErrors[i].err.msg = GetRequestError

C20_Witness ==
    /\ C20_Case
    /\ RetryReturned
    /\ timesCalled[1] = 3
    /\ Len(downloadErrors) = 3
    /\ downloadErrors[3].err.msg = GetRequestError

\* ------------------------------------------------------------- C21
\* The attempt of this step is a Download that made no http request: the
\* request could not be built, or it failed in transport (status -1).
NoRequestAttempt == rpc = "attempt" /\ AttemptStatus = NoRequest

\* The step leaves the current downloader: the next one is tried from n = 0,
\* or WithRetries returns the error when there is none.
Abandons ==
    IF dIdx < Len(downloaders)
    THEN dIdx' = dIdx + 1 /\ n' = 0 /\ rpc' = "attempt"
    ELSE rpc' = "returned" /\ out' = "nil"

\* C21 as stated: an attempt without an http request is the last one on its
\* downloader: no sleep follows it, and the next downloader is tried.
C21_NoRequestIsFatal ==
    [][NoRequestAttempt => (rpc' # "sleep" /\ sleeps' = sleeps /\ Abandons)]_vars

\* C21 amended: an attempt without an http request is retried like a
\* transient status: before the last attempt of the budget the same downloader
\* is kept and a backoff sleep follows; after the last one the downloader is
\* left without a sleep and the remaining downloaders are still tried.
C21_NoRequestStep ==
    NoRequestAttempt =>
        /\ timesCalled'[dIdx] = timesCalled[dIdx] + 1
        /\ downloadErrors' # <<>>
        /\ IF n # expRetryN - 1
           THEN rpc' = "sleep" /\ dIdx' = dIdx /\ n' = n
           ELSE sleeps' = sleeps /\ Abandons

C21_NoRequestIsRetried ==
    /\ [][C21_NoRequestStep]_vars
    /\ [](\A i \in 1..Len(downloaders) :
            (downloaders[i].code = NoRequest /\ downloaders[i].heal >= expRetryN
               /\ (dIdx > i \/ (RetryReturned /\ dIdx = i)))
                => (timesCalled[i] = expRetryN /\ Len(sleeps) >= expRetryN - 1))

\* The first downloader never made a request: it was called three times with
\* two sleeps, and the second downloader has been tried after it.
C21_Witness ==
    /\ Len(downloaders) = 2
    /\ downloaders[1] = [code |-> NoRequest, heal |-> expRetryN]
    /\ timesCalled[1] = expRetryN
    /\ timesCalled[2] >= 1
    /\ SubSeq(sleeps, 1, 2) = sleepSchedule

\* ------------------------------------------------------------- C22
\* Some attempt succeeded: a downloader was called past its failing answers.
Succeeded == \E i \in 1..Len(downloaders) : timesCalled[i] > downloaders[i].heal

\* No response body of a failed attempt is open when an attempt starts, when
\* WithRetries sleeps or when it has returned.
BodiesClosed == openBodies = 0

FailedCalls(i) ==
    IF timesCalled[i] <= downloaders[i].heal THEN timesCalled[i] ELSE downloaders[i].heal

\* The errors of the failed attempts on downloaders 1..i in the order in which
\* the attempts were made, each with the label WithRetries gives it: none (0)
\* for the first failure of the call, "Attempt n+1" for a later one.
RECURSIVE FailedAttempts(_)
FailedAttempts(i) ==
    IF i = 0 THEN <<>>
    ELSE FailedAttempts(i - 1) \o
         [j \in 1..FailedCalls(i) |->
            [attempt |-> IF i = 1 /\ j = 1 THEN 0 ELSE j,
             err |-> DownloadError(downloaders[i].code)]]

Reverse(q) == [k \in 1..Len(q) |-> q[Len(q) + 1 - k]]

SetupFailed(p) == Did(p, "setup_failed")

\* Every downloader answers 403 on every call.
All403 == \A i \in 1..Len(downloaders) : downloaders[i].code = 403

\* ------------------------------------------------------------- C24
\* C24: when a stage of enable before the spawn fails, enable returns an
\* error and the exit code of that stage (settings, script download,
\* artifact download and blob creation each have their own, none of them
\* zero); no script is spawned, no process marker is written, the ticker and
\* the goroutine are not started, and the error is reported.  When every
\* downloader answers 403 the download returns no stream, enable can only
\* return the exit code of the script download, and no script is run.
C24_StageFailure ==
    /\ \A p \in Procs : SetupFailed(p) =>
          /\ pc[p] = "done"
          /\ runErr[p] \in Stages
          /\ exitCode[p] = StageExitCode(runErr[p])
          /\ runErr[p] = "settings" => exitCode[p] = "ExitCode_GetHandlerSettingsFailed"
          /\ runErr[p] = "script" => exitCode[p] = "ExitCode_ScriptBlobDownloadFailed"
          /\ runErr[p] = "artifacts" => exitCode[p] = "ExitCode_DownloadArtifactFailed"
          /\ runErr[p] \in {"outputBlob", "errorBlob"} =>
                exitCode[p] = "ExitCode_BlobCreateOrReplaceFailed"
          /\ exitCode[p] # "ExitCode_Okay"
          /\ ~Did(p, "go") /\ ~Did(p, "kill") /\ ~Did(p, "savepid") /\ ~Did(p, "spawn")
          /\ gpc[p] = "none" /\ ~tickerOn[p]
          /\ pidFile # <<p>>
          /\ lastStatus[p] = "error"
    /\ (All403 /\ rpc = "returned") =>
          /\ out = "nil"
          /\ \A p \in Procs :
                /\ ~Did(p, "go") /\ ~Did(p, "spawn")
                /\ pc[p] = "done" =>
                      (SetupFailed(p) /\ exitCode[p] = "ExitCode_ScriptBlobDownloadFailed")

\* Both downloaders answered 403 once, and enable has returned the exit code
\* of the script download.
C24_Witness ==
    /\ Len(downloaders) = 2
    /\ All403
    /\ timesCalled = <<1, 1>>
    /\ pc[1] = "done"
    /\ SetupFailed(1)
    /\ exitCode[1] = "ExitCode_ScriptBlobDownloadFailed"
    /\ lastStatus[1] = "error"

\* ------------------------------------------------------------- C25
\* The credential cred, tried for the blob of stream s, failed.
CredFailed(s, cred) ==
    IF cred = "sas" THEN ~blobCfg[s].sasOk ELSE ~blobCfg[s].miOk

\* enable has tried to create the blob of stream s, and every credential it
\* tried failed.
AllCredsFailed(s) ==
    /\ credTried[s] # <<>>
    /\ \A i \in 1..Len(credTried[s]) : CredFailed(s, credTried[s][i])

\* C25: a blob is created only when its URI is set; with a SAS token the
\* token is tried first, and the managed identity is tried exactly when there
\* is no token or the token failed, never after a token that succeeded; when
\* every credential tried for a blob failed, enable has returned
\* ExitCode_BlobCreateOrReplaceFailed and an error without running the
\* script, and a blob whose credentials did not all fail never makes enable
\* fail.
C25_SasThenIdentity ==
    \A s \in Streams :
        LET c == blobCfg[s]
            t == credTried[s]
        IN  /\ t \in {<<>>, <<"sas">>, <<"mi">>, <<"sas", "mi">>}
            /\ t # <<>> => c.uri
            /\ t # <<>> =>
                  /\ (Head(t) = "sas") <=> c.token
                  /\ (t[Len(t)] = "mi") <=> (~c.token \/ ~c.sasOk)
            /\ (c.token /\ c.sasOk) => t \in {<<>>, <<"sas">>}
            /\ AllCredsFailed(s) =>
                  /\ pc[1] = "done"
                  /\ SetupFailed(1)
                  /\ runErr[1] = (IF s = "stdout" THEN "outputBlob" ELSE "errorBlob")
                  /\ exitCode[1] = "ExitCode_BlobCreateOrReplaceFailed"
                  /\ ~Did(1, "go") /\ ~Did(1, "spawn")
                  /\ ~Configured(s)
            /\ (SetupFailed(1) /\ runErr[1] = (IF s = "stdout" THEN "outputBlob" ELSE "errorBlob"))
                  => AllCredsFailed(s)

\* The output blob was created with its SAS token alone; for the error blob
\* the token failed, the managed identity was tried after it and failed too,
\* and enable has returned the exit code of the blob creation.
C25_Witness ==
    /\ credTried["stdout"] = <<"sas">>
    /\ credTried["stderr"] = <<"sas", "mi">>
    /\ AllCredsFailed("stderr")
    /\ SetupFailed(1)
    /\ exitCode[1] = "ExitCode_BlobCreateOrReplaceFailed"

\* ------------------------------------------------------------- C26
\* Event a is in the history of p before event b.
Before(p, a, b) ==
    \E i, j \in 1..Len(trace[p]) : i < j /\ trace[p][i] = a /\ trace[p][j] = b

\* C26: with asynchronous execution, success has been reported before the
\* goroutine is started and the script is spawned, and every report of a
\* tick carries success; without it, nothing is reported by enable before the
\* ticks, every report of a tick carries transitioning, and success is the
\* status only after the script has exited and enable has returned without
\* error.
C26_AsyncStatus ==
    /\ [](\A p \in Procs : cmd[p] = "enable" =>
            IF asyncExecution
            THEN /\ Did(p, "go") => Before(p, "report_async", "go")
                 /\ Did(p, "spawn") => Before(p, "report_async", "spawn")
                 /\ (Did(p, "go") /\ pc[p] # "done") => lastStatus[p] = "success"
            ELSE /\ ~Did(p, "report_async")
                 /\ lastStatus[p] = "success" =>
                       /\ pc[p] = "done" /\ Did(p, "stop") /\ runErr[p] = ""
                       /\ ~ScriptAlive(p))
    /\ [][\A p \in Procs : TickPass(p) =>
            lastStatus'[p] = (IF asyncExecution THEN "success" ELSE "transitioning")]_vars

\* Asynchronous execution: success was reported before the spawn, the script
\* still runs, and a tick has reported again.
C26_Witness ==
    /\ asyncExecution
    /\ Before(1, "report_async", "spawn")
    /\ ScriptAlive(1)
    /\ tail[1]["stdout"] > 0
    /\ lastStatus[1] = "success"

\* ------------------------------------------------------------- C27
\* The Invoke function of the command of p has returned.
InvokeReturned(p) ==
    /\ pc[p] = "done"
    /\ cmd[p] \in AllCommands
    /\ ~Did(p, "pre_failed") /\ ~Did(p, "pre_skip")

ScriptDone(p) == Did(p, "spawn") /\ pc[p] \in {"defer", "send", "final"}

\* An appendToBlob of the last pass of p failed.
AppendFailed(p) == \E s \in Streams : appendErr[p][s] # ""

\* C28: from the return of the script execution to the return of enable, no
\* step changes the error and the exit code, whatever the appends of the
\* ticks and of the final pass give; a tick whose append failed leaves the
\* main path where it is and the goroutine at its select; enable returns
\* through the final pass, Cleanup and the report, and what is reported is
\* the outcome of the script.
C28_OutcomeIsTheScripts ==
    /\ [][\A p \in Procs : ScriptDone(p) =>
            /\ runErr'[p] = runErr[p]
            /\ exitCode'[p] = exitCode[p]
            /\ pc'[p] # "dead"]_vars
    /\ [][\A p \in Procs : (TickPass(p) /\ AppendFailed(p)') =>
            /\ pc'[p] = pc[p]
            /\ runErr'[p] = runErr[p] /\ exitCode'[p] = exitCode[p]
            /\ gpc'[p] = "select"]_vars
    /\ [](\A p \in Procs : (Returned(p) /\ Did(p, "spawn")) =>
            /\ <<runErr[p], exitCode[p]>> \in
                  {<<"", "ExitCode_Okay">>,
                   <<"failed to execute command", "ExitCode_ScriptFailed">>}
            /\ Did(p, "script_exit") /\ Did(p, "cleanup")
            /\ lastStatus[p] = StatusKind(runErr[p]))

\* The script succeeded, the append of the final pass failed, and enable has
\* returned nil and ExitCode_Okay.
C28_Witness ==
    /\ Returned(1)
    /\ Did(1, "spawn")
    /\ AppendFailed(1)
    /\ runErr[1] = ""
    /\ exitCode[1] = "ExitCode_Okay"
    /\ lastStatus[1] = "success"

\* ------------------------------------------------------------- C29
\* The events of a history that report a status or append output.
IsReporting(ev) ==
    ev \in {"status_success", "status_error", "report_async", "final_append"}

\* The handler process of an enable has ended by one of the return paths
\* named: Pre's "already processed", or a return of enable.
EnableEnded(p) == cmd[p] = "enable" /\ pc[p] = "done" /\ ~Did(p, "pre_failed")

\* C29 as stated: on every return path of an enable (Pre's short-circuit, a
\* failing stage before the spawn, a failed script, a successful script)
\* Cleanup has been run, and no report and no append of that command comes
\* after it.
C29_CleanupLast ==
    \A p \in Procs : EnableEnded(p) =>
        /\ Did(p, "cleanup")
        /\ \A i, j \in 1..Len(trace[p]) :
              (i < j /\ trace[p][i] = "cleanup") => ~IsReporting(trace[p][j])

\* ------------------------------------------------------------- C30
\* The step is the return of a call of ReportStatusToLocalFile or
\* ReportStatusToBlob.
ReportReturns == Len(returns') = Len(returns) + 1

\* C30: when the command's ShouldReportStatus is false, every call of
\* ReportStatusToLocalFile and of ReportStatusToBlob returns nil, and no step
\* creates a file in the status folder, changes the file at the final path
\* or the content of any file, or sends a request to the remote endpoint.
C30_NoReportIsNoOp ==
    /\ [][~shouldReportStatus =>
            /\ ReportReturns => returns'[Len(returns')].err = ""
            /\ inodes' = inodes
            /\ statusPath' = statusPath
            /\ tmpFile' = tmpFile
            /\ calls' = calls
            /\ spc' = spc
            /\ requests' = requests]_vars
    /\ [](~shouldReportStatus =>
            /\ requests = 0
            /\ calls = 0
            /\ \A i \in 1..Len(returns) : returns[i].err = "")

\* With the flag false and a status file of an earlier report in place, both
\* functions have been called and returned nil; the file is as it was and no
\* request was sent.
C30_Witness ==
    /\ ~shouldReportStatus
    /\ returns = <<[fn |-> "local", err |-> ""], [fn |-> "blob", err |-> ""]>>
    /\ statusPath = 1
    /\ inodes = <<[doc |-> 0, len |-> DocLen]>>
    /\ requests = 0

\* ------------------------------------------------------------- C31
\* The step is the return of a call of ReportStatusToBlob.
BlobReturns == ReportReturns /\ returns'[Len(returns')].fn = "blob"

\* The calls of ReportStatusToBlob that have returned, and those among them
\* that returned the error of the request.
BlobCalls == {i \in 1..Len(returns) : returns[i].fn = "blob"}
SendFailures == {i \in BlobCalls : returns[i].err = "failed to report status to HGAP"}

\* C31: a call of ReportStatusToBlob sends at most one request, requests are
\* sent by these calls only, and a call whose request failed has sent that
\* one request and returned its error, wrapped: the number of requests never
\* exceeds the number of calls, and every failed request is a returned error.
C31_SubmitOnce ==
    /\ [][/\ requests' \in {requests, requests + 1}
          /\ requests' # requests => BlobReturns
          /\ (BlobReturns /\ returns'[Len(returns')].err = "failed to report status to HGAP")
                => requests' = requests + 1]_vars
    /\ [](/\ requests <= Cardinality(BlobCalls)
          /\ requests >= Cardinality(SendFailures)
          /\ requests =
                Cardinality({i \in BlobCalls : returns[i].err \in
                                {"", "failed to report status to HGAP"}})
                - (IF shouldReportStatus THEN 0 ELSE Cardinality(BlobCalls)))

\* Two calls, each with a request that failed: two requests were sent and
\* both errors were returned.
C31_Witness ==
    /\ shouldReportStatus
    /\ returns = <<[fn |-> "blob", err |-> "failed to report status to HGAP"],
                   [fn |-> "blob", err |-> "failed to report status to HGAP"]>>
    /\ requests = 2

\* ------------------------------------------------------------- C32
\* The step is the Invoke function of command c in process p, from its call
\* to its return.
InvokeStep(p, c) == cmd[p] = c /\ pc[p] \in {"invoke", "dkill"} /\ pc'[p] # pc[p]

\* The execution the marker names: the handler process that runs a managed
\* script, if there is one.
Execution == IF pidFile # <<>> /\ ScriptAlive(pidFile[1]) THEN {pidFile[1]} ELSE {}

\* C32 as stated: an install that returns nil leaves the data directory in
\* place, an uninstall that returns nil leaves none; no step of disable or
\* update changes the data directory, the sequence marker or the status
\* files; and a disable or update that has returned has terminated the
\* execution there was: no managed script is alive when it returns.
C32_Lifecycle ==
    [][\A p \in Procs :
        /\ (InvokeStep(p, "install") /\ pc'[p] = "done" /\ runErr'[p] = "")
              => dataDir' # "absent"
        /\ (InvokeStep(p, "uninstall") /\ pc'[p] = "done" /\ runErr'[p] = "")
              => dataDir' = "absent"
        /\ (InvokeStep(p, "disable") \/ InvokeStep(p, "update")) =>
              /\ dataDir' = dataDir
              /\ mrseq' = mrseq
              /\ statusPath' = statusPath /\ inodes' = inodes
              /\ pc'[p] = "done" => \A q \in Execution : ~ScriptAlive(q)'
      ]_vars

\* ------------------------------------------------------------- C33
\* C33 as stated: with neither an inline script nor a script URI enable ends
\* at the script stage with the exit code of the script download, and never
\* gets to the goroutine, the marker or the spawn; with an inline script the
\* file that is run is the one the script was saved to.
C33_ExactlyOneSource ==
    \A p \in Enables :
        /\ (~source.script /\ ~source.uri) =>
              /\ ~Did(p, "go") /\ ~Did(p, "kill") /\ ~Did(p, "savepid")
              /\ ~Did(p, "spawn") /\ ~Did(p, "spawn_failed")
              /\ (pc[p] = "done" /\ Did(p, "pre_ok")) =>
                    /\ runErr[p] \in {"settings", "immediate", "script"}
                    /\ runErr[p] = "script" => exitCode[p] = "ExitCode_ScriptBlobDownloadFailed"
        /\ (source.script /\ Did(p, "spawn")) => ExecutedFile = "script.sh"

\* ------------------------------------------------------------- C34
\* The calls of Download made so far that failed.
FailedDownloads == {i \in 1..Len(downloadErrors) : downloaders[i].code # StatusOK}

\* What holds of every failed Download whatever the downloader: the status is
\* the server's, no body is returned, and a URL download has the message of
\* its status.
FailedDownloadBasics(i) ==
    LET d == downloaders[i]
        r == downloadErrors[i]
    IN  /\ r.status = d.code
        /\ ~r.body
        /\ r.msg # ""
        /\ d.kind = "url" =>
              /\ d.code = 404 => r.msg = "because it does not exist"
              /\ d.code = 401 => r.msg = "because access was denied"
              /\ d.code = 403 => r.msg = "Please verify the machine has network connectivity"
              /\ d.code = 500 => r.msg = "due to an issue with storage"
              /\ d.code = 400 => r.msg =
                    "because parts of the request were incorrectly formatted, missing, and/or invalid"
        /\ d.kind = "msi" =>
              /\ d.code = 404 => r.msg = "MsiDownload404ErrorString"
              /\ d.code = 403 => r.msg = "MsiDownload403ErrorString"

FailedAfterPre(p) ==
    /\ p \in Enables
    /\ Did(p, "pre_ok")
    /\ pc[p] = "done"
    /\ runErr[p] # ""

\* The enable of p has begun the work of Invoke.
PastPre(p) ==
    \/ SetupFailed(p)
    \/ Did(p, "go")
    \/ Did(p, "savescript_failed")
    \/ Did(p, "spawn")

\* C35: an enable that is past Pre has advanced the marker to its version or
\* the marker is beyond it; when an enable of version v has failed after Pre,
\* Pre stops a later enable of the same version (as already processed, or
\* with the error of a marker that could not be read), the marker stays, and
\* an enable stopped by Pre never starts Invoke nor spawns a script.
C35_FailedVersionNotRerun ==
    /\ [](\A p \in Enables :
            /\ PastPre(p) => (Did(p, "pre_ok") /\ MarkerValue(mrseq) >= seq[p])
            /\ (Did(p, "pre_skip") \/ Did(p, "pre_failed")) =>
                  (~PastPre(p) /\ ~Did(p, "kill") /\ pc[p] = "done"))
    /\ [][\A q \in Procs :
            (PreStep(q) /\ \E p \in Procs : FailedAfterPre(p) /\ seq[p] = seq[q]) =>
                /\ Verdict(q) \in {"pre_skip", "pre_failed"}
                /\ mrseq' = mrseq
                /\ pc'[q] = "done"
                /\ runErr'[q] # ""]_vars

\* An enable whose script failed, and a later enable of the same version
\* that Pre stopped as already processed.
C35_Witness ==
    \E p \in Enables, q \in Enables :
        /\ p < q
        /\ seq[p] = seq[q]
        /\ FailedAfterPre(p)
        /\ Did(p, "spawn")
        /\ exitCode[p] = "ExitCode_ScriptFailed"
        /\ pc[q] = "done"
        /\ Did(q, "pre_skip")
        /\ ~Did(q, "spawn")

\* ------------------------------------------------------------- C36
\* C36: while the managed script spawned by a handler process is running the
\* process marker exists and names that process, and the deferred deletion
\* of the marker by one invocation never removes a marker while the script
\* of another invocation is running.
C36_MarkerNamesSpawner ==
    /\ [](\A p \in Procs : ScriptAlive(p) => pidFile = <<p>>)
    /\ [][\A p \in Procs :
            (pc[p] = "defer" /\ pc'[p] = "send" /\ pidFile # <<>>) =>
                ~\E q \in Procs \ {p} : ScriptAlive(q)]_vars

\* ------------------------------------------------------------- C37
\* The handle AppendBlock is called on by appendToBlob: the SAS reference
\* when there is one, else the client of the managed identity.
HandleUsed(h) == IF h.ref THEN "sas" ELSE IF h.client THEN "mi" ELSE "none"

\* The credentials enable tried for the blob of stream s whose create/replace
\* call succeeded.
CredSucceeded(s) == {k \in Range(credTried[s]) : ~CredFailed(s, k)}

FinalFile == IF statusPath = 0 THEN <<>> ELSE <<inodes[statusPath]>>

\* The step is a return of saveStatusReport with an error.
SaveFailed ==
    /\ Len(returns') = Len(returns) + 1
    /\ returns'[Len(returns')] = [fn |-> "local", err |-> "failed to save handler status"]

\* C38: no step of saveStatusReport other than a rename that succeeds
\* changes the file at the final path: a call that fails at the creation of
\* the temporary file, at the write or at the rename returns with the final
\* path as it was when the call began, absent or the complete document of an
\* earlier call.
C38_FailedSaveLeavesFinal ==
    /\ [](FinalFile # <<>> => FinalFile[1].len = DocLen)
    /\ [][/\ SaveFailed => (spc \in {"create", "write", "rename"} /\ FinalFile' = FinalFile)
          /\ FinalFile' # FinalFile =>
                /\ spc = "rename"
                /\ returns' = Return("local", "")
                /\ FinalFile' = <<[doc |-> calls, len |-> DocLen]>>]_vars

\* The first call wrote its document in full to the temporary file and
\* failed at the rename: the final path still holds the earlier document.
C38_Witness ==
    /\ calls = 1
    /\ spc = "idle"
    /\ returns = <<[fn |-> "local", err |-> "failed to save handler status"]>>
    /\ Len(inodes) = 2
    /\ inodes[2] = [doc |-> 1, len |-> DocLen]
    /\ FinalFile = <<[doc |-> 0, len |-> DocLen]>>

\* ------------------------------------------------------------- C39
\* The number of calls of Download made so far, over all downloaders.
RECURSIVE Attempts(_)
Attempts(i) == IF i = 0 THEN 0 ELSE timesCalled[i] + Attempts(i - 1)

\* C39: WithRetries returns; for n downloaders it calls Download at most
\* expRetryN * n times and sleeps at most (expRetryN - 1) * n times; once a
\* Download has succeeded it returns the body and calls nothing more; the
\* sleep after the first failed attempt of each downloader is 3 s and the
\* one after its second is 6 s.
C39_RetriesBounded ==
    /\ <>RetryReturned
    /\ [](/\ Attempts(Len(downloaders)) <= expRetryN * Len(downloaders)
          /\ Len(sleeps) <= (expRetryN - 1) * Len(downloaders)
          /\ \A i \in 1..Len(downloaders) : timesCalled[i] <= expRetryN
          /\ Succeeded => (RetryReturned /\ out = "body"))
    /\ [][/\ RetryReturned => (timesCalled' = timesCalled /\ sleeps' = sleeps)
          /\ sleeps' # sleeps =>
                /\ Len(sleeps') = Len(sleeps) + 1
                /\ sleeps'[Len(sleeps')] = IF timesCalled[dIdx] = 1 THEN 3 ELSE 6]_vars

\* WithRetries has returned the body of the second downloader after the
\* first one failed three times: three attempts and the sleeps 3 s, 6 s on
\* the first, then a failure, the sleep 3 s and the success on the second.
C39_Witness ==
    /\ RetryReturned
    /\ out = "body"
    /\ Len(downloaders) = 2
    /\ timesCalled = <<3, 2>>
    /\ sleeps = <<3, 6, 3>>
====
